---- MODULE Spec2Model ----
(***************************************************************************)
(* A model of the snapshot_store package: the content-addressed object     *)
(* store (storage/object_store.py, storage/layout.py), the canonical       *)
(* encoder and hasher (integrity/canonical.py, integrity/hashing.py), the  *)
(* verifier (integrity/verification.py), the mark-and-sweep collector      *)
(* (storage/gc.py) and the engine facade (engine.py).                      *)
(*                                                                         *)
(* Files are sequences of tokens standing for bytes.  A digest is a        *)
(* string; the records the model can build are the finite table Record.    *)
(***************************************************************************)
EXTENDS Integers, Sequences, FiniteSets, TLC

VARIABLES
    objects,   \* objects/<d[:2]>/<d>: digest -> file content; DOMAIN = files present
    temps,     \* .tmp_*.json files lying in the prefix directories: name -> content
    refs,      \* snapshots/<name>: name -> file content (text)
    pc,        \* where the write in progress stands (at = "idle" between operations)
    crashes,   \* how many times the process died in the middle of a write
    ret,       \* what the last completed engine operation returned or raised
    waiting,   \* where the write of a second caller stands while it does not run
    collector, \* where a collection run step by step stands, and what it found
    incremental \* the IncrementalGC object: _cache_valid and _reachable_cache

vars == <<objects, temps, refs, pc, crashes, ret, waiting, collector, incremental>>

----------------------------------------------------------------------------
(* Bounds of the model *)

NumObjects == 6     \* how many records of DigestOrder the operations may use
NumNames == 1       \* how many snapshot reference names
MaxTemps == 2       \* how many temporary file names mkstemp can hand out
MaxCrashes == 1     \* how many times the process may die in the middle of a write
MaxFailing == 1     \* how many unlinks may fail with OSError during one sweep
NumStepObjects == 3 \* how many records the step-by-step writes may use
NumStepNames == 1   \* how many reference names the step-by-step writes may use
NumTamperObjects == 5 \* how many records are put while files are changed from outside
MaxTampered == 1    \* how many object files may differ from what put wrote
NumScanObjects == 4 \* how many records the store holds while it is scanned and collected
NumScanNames == 1   \* how many reference names are used while it is scanned and collected
MaxBatch == 2       \* the largest batch_size sweep_batch is called with
NumFrameNames == 2  \* how many reference names are used where references are overwritten

Min(a, b) == IF a < b THEN a ELSE b

Range(s) == {s[i] : i \in DOMAIN s}

\* The digests of the records of the table, leaves first.
DigestOrder == <<"b1", "b2", "s1", "s3", "l1", "t1", "s2", "s4", "x1", "s5">>

AllDigests == Range(DigestOrder)

Digest == {DigestOrder[i] : i \in 1..Min(NumObjects, Len(DigestOrder))}

StepDigest == {DigestOrder[i] : i \in 1..Min(NumStepObjects, Len(DigestOrder))}

TamperDigest ==
    LET
        \* The records put while files are changed from outside: a chain of three
        \* snapshots and their bundles.
        TamperOrder == <<"b1", "s1", "s3", "s4", "b2", "l1">>
    IN
                {TamperOrder[i] : i \in 1..Min(NumTamperObjects, Len(TamperOrder))}

NameOrder == <<"main", "dev", "tag">>

Name == {NameOrder[i] : i \in 1..Min(NumNames, Len(NameOrder))}

StepName == {NameOrder[i] : i \in 1..Min(NumStepNames, Len(NameOrder))}

ScanDigest == {DigestOrder[i] : i \in 1..Min(NumScanObjects, Len(DigestOrder))}

ScanName == {NameOrder[i] : i \in 1..Min(NumScanNames, Len(NameOrder))}

TempOrder == <<".tmp_a.json", ".tmp_b.json", ".tmp_c.json">>

NoParent == ""      \* Snapshot.parent is None (falsy, like the empty string)

NoMetadata == <<>>  \* metadata or {}: an empty mapping is left out of the record

\* The record (the dict to_dict() builds) behind each digest of the table.
Record(d) ==
    CASE d = "b1" -> [type |-> "bundle", content |-> "p1", metadata |-> NoMetadata]
      [] d = "b2" -> [type |-> "bundle", content |-> "p2", metadata |-> NoMetadata]
      [] d = "l1" -> [type |-> "blob", content |-> "AAE=", metadata |-> NoMetadata]
      [] d = "s1" -> [type |-> "snapshot",
                      content |-> [bundles |-> <<"b1">>, parent |-> NoParent],
                      metadata |-> NoMetadata]
      [] d = "s2" -> [type |-> "snapshot",
                      content |-> [bundles |-> <<"b1">>, parent |-> NoParent],
                      metadata |-> <<"note", "v1">>]
      [] d = "s3" -> [type |-> "snapshot",
                      content |-> [bundles |-> <<"b1", "b2">>, parent |-> "s1"],
                      metadata |-> NoMetadata]
      [] d = "t1" -> [type |-> "tree",
                      content |-> [children |-> <<"b2", "s1">>],
                      metadata |-> NoMetadata]
      [] d = "s4" -> [type |-> "snapshot",
                      content |-> [bundles |-> <<"b1">>, parent |-> "s3"],
                      metadata |-> NoMetadata]
      [] d = "x1" -> [type |-> "note", content |-> "p1", metadata |-> NoMetadata]
      [] d = "s5" -> [type |-> "snapshot",
                      content |-> [bundles |-> <<"s1">>, parent |-> "s3"],
                      metadata |-> NoMetadata]

----------------------------------------------------------------------------
(* integrity/canonical.py, integrity/hashing.py *)

\* canonical_json: keys in sorted order (content, metadata, type), no whitespace.
canonical_json(obj) ==
    LET
        \* json.dumps(sort_keys=True, separators=(',', ':')) of the content value.
        canonical_content(obj1) ==
            CASE obj1.type = "snapshot" ->
                    <<"{", "bundles">> \o obj1.content.bundles
                    \o (IF obj1.content.parent # NoParent
                        THEN <<"parent", obj1.content.parent>> ELSE <<>>)
                    \o <<"}">>
              [] obj1.type = "tree" ->
                    <<"{", "children">> \o obj1.content.children \o <<"}">>
              [] OTHER -> <<obj1.content>>
    IN
    <<"{", "content">> \o canonical_content(obj)
    \o (IF obj.metadata # NoMetadata THEN <<"metadata">> \o obj.metadata ELSE <<>>)
    \o <<"type", obj.type, "}">>

\* The canonical encoding of every record of the table.
Encoding == [d \in AllDigests |-> canonical_json(Record(d))]

\* compute_hash: a collision-free hash on the encodings of the table; every
\* other byte string hashes to a digest no record of the table has.
compute_hash(data) ==
    IF \E d \in AllDigests : Encoding[d] = data
    THEN CHOOSE d \in AllDigests : Encoding[d] = data
    ELSE "ff"

\* A faulty variant of compute_object_hash: the parent of a snapshot is left out
\* of what is hashed.
compute_object_hash_without_parent(obj) ==
    compute_hash(canonical_json(
        IF obj.type = "snapshot"
        THEN [obj EXCEPT !.content.parent = NoParent]
        ELSE obj))

compute_object_hash(obj) == compute_hash(canonical_json(obj))

\* bytes.decode('utf-8') then json.loads: a file parses when, whitespace between
\* tokens aside, it is the encoding of a record; "0xFF" is a byte that is not UTF-8.
json_loads(data) ==
    LET text == SelectSeq(data, LAMBDA c : c # " ")
    IN  IF "0xFF" \in Range(data)
        THEN [exc |-> "UnicodeDecodeError", obj |-> Record("b1")]
        ELSE IF \E d \in AllDigests : Encoding[d] = text
        THEN [exc |-> "", obj |-> Record(CHOOSE d \in AllDigests : Encoding[d] = text)]
        ELSE [exc |-> "JSONDecodeError", obj |-> Record("b1")]

----------------------------------------------------------------------------
(* integrity/verification.py *)

\* verify_object_structure: "" when the structure is valid, else the error raised.
verify_object_structure(obj) ==
    LET
        valid_types == {"blob", "bundle", "snapshot", "tree"}
    IN
    IF obj.type \notin valid_types THEN "InvalidObjectError" ELSE ""

\* verify_object_integrity: "" when the content hashes to expected_hash.
verify_object_integrity(obj, expected_hash) ==
    IF compute_object_hash(obj) # expected_hash THEN "ObjectCorruptedError" ELSE ""

extract_references(obj) ==
    IF obj.type = "snapshot"
    THEN Range(obj.content.bundles)
         \cup (IF obj.content.parent # NoParent THEN {obj.content.parent} ELSE {})
    ELSE IF obj.type = "tree"
    THEN Range(obj.content.children)
    ELSE {}

----------------------------------------------------------------------------
(* storage/layout.py, storage/object_store.py: the store as functions of the files *)

\* A directory with no file in it.
NoFiles == [p \in {} |-> <<>>]

has_object(objs, h) == h \in DOMAIN objs

\* Every file name under every prefix directory, temporary files included.
list_all_objects(objs, tmps) == DOMAIN objs \cup DOMAIN tmps

\* The files once `path` holds `data`.
WithFile(files, path, data) ==
    [p \in DOMAIN files \cup {path} |-> IF p = path THEN data ELSE files[p]]

\* The files once `path` is unlinked.
WithoutFile(files, path) == [p \in DOMAIN files \ {path} |-> files[p]]

\* A faulty variant of verified: the content hash is not compared.
verified_without_integrity(parsed, h, verify) ==
    IF parsed.exc = "JSONDecodeError"
    THEN [exc |-> "StorageError", obj |-> parsed.obj]
    ELSE IF parsed.exc # ""
    THEN parsed
    ELSE IF verify /\ verify_object_structure(parsed.obj) # ""
    THEN [exc |-> verify_object_structure(parsed.obj), obj |-> parsed.obj]
    ELSE parsed

\* get_object after the file was read and parsed: the checks of verify=True.
verified(parsed, h, verify) ==
    IF parsed.exc = "JSONDecodeError"
    THEN [exc |-> "StorageError", obj |-> parsed.obj]
    ELSE IF parsed.exc # ""
    THEN parsed
    ELSE IF verify /\ verify_object_structure(parsed.obj) # ""
    THEN [exc |-> verify_object_structure(parsed.obj), obj |-> parsed.obj]
    ELSE IF verify /\ verify_object_integrity(parsed.obj, h) # ""
    THEN [exc |-> verify_object_integrity(parsed.obj, h), obj |-> parsed.obj]
    ELSE parsed

\* get_object: [exc, obj]; exc = "" when a record is returned.
get_object(objs, h, verify) ==
    IF ~has_object(objs, h)
    THEN [exc |-> "ObjectNotFoundError", obj |-> Record("b1")]
    ELSE verified(json_loads(objs[h]), h, verify)

\* A faulty variant of existing_check: the file already there is never trusted,
\* the object is written again.
existing_check_rewrites(existing, h) ==
    IF existing.exc = "UnicodeDecodeError" THEN "UnicodeDecodeError" ELSE "write"

\* put_object, the file at obj_path exists: what the try block decides about it.
existing_check(existing, h) ==
    IF existing.exc = "UnicodeDecodeError"
    THEN "UnicodeDecodeError"
    ELSE IF existing.exc = "JSONDecodeError"
    THEN "write"
    ELSE IF verify_object_integrity(existing.obj, h) # ""
    THEN "write"
    ELSE "return"

\* put_object up to the write: what the existence check decides.
\* "return": the file is there and intact; "write": absent or corrupt; else raised.
put_check(objs, obj) ==
    IF verify_object_structure(obj) # ""
    THEN verify_object_structure(obj)
    ELSE IF ~has_object(objs, compute_object_hash(obj))
    THEN "write"
    ELSE existing_check(json_loads(objs[compute_object_hash(obj)]),
                        compute_object_hash(obj))

\* tempfile.mkstemp(dir, prefix='.tmp_', suffix='.json'): a new, empty file.
mkstemp(tmps, temp_path) == WithFile(tmps, temp_path, <<>>)

\* A faulty variant of os_write: only the first bytes of the payload are written.
os_write_short(tmps, temp_path, data) ==
    WithFile(tmps, temp_path, SubSeq(data, 1, Len(data) - 1))

\* os.write(fd, data): the payload goes to the temporary file.
os_write(tmps, temp_path, data) == WithFile(tmps, temp_path, data)

\* os.replace(temp_path, path): the object files after the rename ...
os_replace(objs, tmps, temp_path, path) == WithFile(objs, path, tmps[temp_path])

\* _write_object_atomic run to its end: mkstemp, write, close, rename.
write_object_atomic(objs, path, data) ==
    os_replace(objs, os_write(mkstemp(NoFiles, TempOrder[1]), TempOrder[1], data),
               TempOrder[1], path)

\* A faulty variant of put_decided: the payload is written straight to the object
\* path, so a write that fails leaves its first bytes there.
put_decided_in_place(objs, obj, io, check) ==
    IF check = "return"
    THEN [exc |-> "", digest |-> compute_object_hash(obj), objects |-> objs]
    ELSE IF check # "write"
    THEN [exc |-> check, digest |-> "", objects |-> objs]
    ELSE IF io # "ok"
    THEN [exc |-> "StorageError", digest |-> "",
          objects |-> WithFile(objs, compute_object_hash(obj),
                               SubSeq(canonical_json(obj), 1, 2))]
    ELSE [exc |-> "", digest |-> compute_object_hash(obj),
          objects |-> WithFile(objs, compute_object_hash(obj), canonical_json(obj))]

\* A faulty variant of put_decided: when the write fails, the clean-up unlinks
\* the object path instead of the temporary file.
put_decided_unlinking_target(objs, obj, io, check) ==
    IF check = "return"
    THEN [exc |-> "", digest |-> compute_object_hash(obj), objects |-> objs]
    ELSE IF check # "write"
    THEN [exc |-> check, digest |-> "", objects |-> objs]
    ELSE IF io # "ok"
    THEN [exc |-> "StorageError", digest |-> "",
          objects |-> IF has_object(objs, compute_object_hash(obj))
                      THEN WithoutFile(objs, compute_object_hash(obj)) ELSE objs]
    ELSE [exc |-> "", digest |-> compute_object_hash(obj),
          objects |-> write_object_atomic(objs, compute_object_hash(obj),
                                          canonical_json(obj))]

\* put_object from the existence check on: [exc, digest, objects].
put_decided(objs, obj, io, check) ==
    IF check = "return"
    THEN [exc |-> "", digest |-> compute_object_hash(obj), objects |-> objs]
    ELSE IF check # "write"
    THEN [exc |-> check, digest |-> "", objects |-> objs]
    ELSE IF io # "ok"
    THEN [exc |-> "StorageError", digest |-> "", objects |-> objs]
    ELSE [exc |-> "", digest |-> compute_object_hash(obj),
          objects |-> write_object_atomic(objs, compute_object_hash(obj),
                                          canonical_json(obj))]

\* put_object as a whole, io = "ok" or "fail" (an OSError anywhere in the write,
\* the temporary file cleaned up): [exc, digest, objects].
put_object(objs, obj, io) == put_decided(objs, obj, io, put_check(objs, obj))

\* A faulty variant of delete_object: it reports the deletion without unlinking.
delete_object_keeps_file(objs, h, io) ==
    IF ~has_object(objs, h)
    THEN [exc |-> "", deleted |-> FALSE, objects |-> objs]
    ELSE IF io # "ok"
    THEN [exc |-> "StorageError", deleted |-> FALSE, objects |-> objs]
    ELSE [exc |-> "", deleted |-> TRUE, objects |-> objs]

\* delete_object: [exc, deleted, objects]; io = "fail" is an OSError from unlink.
delete_object(objs, h, io) ==
    IF ~has_object(objs, h)
    THEN [exc |-> "", deleted |-> FALSE, objects |-> objs]
    ELSE IF io # "ok"
    THEN [exc |-> "StorageError", deleted |-> FALSE, objects |-> objs]
    ELSE [exc |-> "", deleted |-> TRUE, objects |-> WithoutFile(objs, h)]

\* The text put_snapshot_ref writes for a digest: its hex characters, in two halves.
HexText(h) == <<h, h>>

\* str.strip()
RECURSIVE strip(_)
strip(text) ==
    IF text = <<>> THEN text
    ELSE IF Head(text) = " " THEN strip(Tail(text))
    ELSE IF text[Len(text)] = " " THEN strip(SubSeq(text, 1, Len(text) - 1))
    ELSE text

\* The string a reference file's text is: a digest, "" when empty, else a string
\* that names no object.
TextValue(text) ==
    IF text = <<>> THEN ""
    ELSE IF \E d \in AllDigests : HexText(d) = text
    THEN CHOOSE d \in AllDigests : HexText(d) = text
    ELSE "??"

\* get_snapshot_ref: the stripped text of the file, "None" when there is no file.
get_snapshot_ref(rfs, name) ==
    IF name \notin DOMAIN rfs THEN "None" ELSE TextValue(strip(rfs[name]))

list_snapshot_refs(rfs) == DOMAIN rfs

\* Path.write_text: open(path, 'w') creates or truncates the file ...
open_truncate(rfs, name) == WithFile(rfs, name, <<>>)

\* ... and the text reaches it when the buffer is flushed at close.
write_text(rfs, name, text) == WithFile(open_truncate(rfs, name), name, text)

\* A faulty variant of put_snapshot_ref: the target is not looked up.
put_snapshot_ref_unchecked(objs, rfs, name, snapshot_hash, io) ==
    IF io = "fail"
    THEN [exc |-> "StorageError", refs |-> rfs]
    ELSE IF io = "fail_write"
    THEN [exc |-> "StorageError", refs |-> open_truncate(rfs, name)]
    ELSE [exc |-> "", refs |-> write_text(rfs, name, HexText(snapshot_hash))]

\* put_snapshot_ref run to its end: [exc, refs].  io = "fail" is an OSError from
\* mkdir or open, io = "fail_write" one from the write after the file was opened.
put_snapshot_ref(objs, rfs, name, snapshot_hash, io) ==
    IF ~has_object(objs, snapshot_hash)
    THEN [exc |-> "ObjectNotFoundError", refs |-> rfs]
    ELSE IF io = "fail"
    THEN [exc |-> "StorageError", refs |-> rfs]
    ELSE IF io = "fail_write"
    THEN [exc |-> "StorageError", refs |-> open_truncate(rfs, name)]
    ELSE [exc |-> "", refs |-> write_text(rfs, name, HexText(snapshot_hash))]

\* A faulty variant of delete_snapshot_ref: every reference file is unlinked.
delete_snapshot_ref_every_name(rfs, name, io) ==
    IF name \notin DOMAIN rfs
    THEN [exc |-> "", deleted |-> FALSE, refs |-> rfs]
    ELSE IF io # "ok"
    THEN [exc |-> "StorageError", deleted |-> FALSE, refs |-> rfs]
    ELSE [exc |-> "", deleted |-> TRUE, refs |-> NoFiles]

\* delete_snapshot_ref: [exc, deleted, refs].
delete_snapshot_ref(rfs, name, io) ==
    IF name \notin DOMAIN rfs
    THEN [exc |-> "", deleted |-> FALSE, refs |-> rfs]
    ELSE IF io # "ok"
    THEN [exc |-> "StorageError", deleted |-> FALSE, refs |-> rfs]
    ELSE [exc |-> "", deleted |-> TRUE, refs |-> WithoutFile(rfs, name)]

----------------------------------------------------------------------------
(* storage/gc.py *)

\* The collector's load_object callback: get_object(h, verify=False).
load_object(objs, h) == get_object(objs, h, FALSE)

\* A faulty variant of loaded_references: the parent of a snapshot is not followed.
loaded_references_without_parent(loaded) ==
    IF loaded.exc # "" THEN {}
    ELSE IF loaded.obj.type = "snapshot" THEN Range(loaded.obj.content.bundles)
    ELSE extract_references(loaded.obj)

\* The references _mark_reachable enqueues for a loaded object; none when the
\* load raised.
loaded_references(loaded) ==
    IF loaded.exc # "" THEN {} ELSE extract_references(loaded.obj)

\* _mark_reachable: the traversal from the queue (a worklist; the order in which
\* it is emptied does not change the set returned).
RECURSIVE mark_reachable(_, _, _)
mark_reachable(objs, queue, reachable) ==
    IF queue = {}
    THEN reachable
    ELSE LET obj_hash == CHOOSE h \in queue : TRUE
         IN  IF obj_hash \in reachable \/ ~has_object(objs, obj_hash)
             THEN mark_reachable(objs, queue \ {obj_hash}, reachable)
             ELSE mark_reachable(
                      objs,
                      (queue \ {obj_hash})
                      \cup (loaded_references(load_object(objs, obj_hash))
                            \ (reachable \cup {obj_hash})),
                      reachable \cup {obj_hash})

\* A faulty variant of sweep_one: a deleted object is not added to the deleted list.
sweep_one_unrecorded(acc, obj_hash, reachable, del) ==
    IF obj_hash \in reachable
    THEN [acc EXCEPT !.errors = @ \cup {<<"Safety violation", obj_hash>>}]
    ELSE IF del.exc # ""
    THEN [acc EXCEPT !.errors = @ \cup {<<"Failed to delete", obj_hash>>}]
    ELSE IF del.deleted
    THEN [acc EXCEPT !.objects = del.objects]
    ELSE acc

\* A faulty variant of sweep_one: once a delete has failed, the objects that
\* follow are left alone.
sweep_one_stopping(acc, obj_hash, reachable, del) ==
    IF acc.errors # {}
    THEN acc
    ELSE IF obj_hash \in reachable
    THEN [acc EXCEPT !.errors = @ \cup {<<"Safety violation", obj_hash>>}]
    ELSE IF del.exc # ""
    THEN [acc EXCEPT !.errors = @ \cup {<<"Failed to delete", obj_hash>>}]
    ELSE IF del.deleted
    THEN [acc EXCEPT !.objects = del.objects, !.deleted = @ \cup {obj_hash}]
    ELSE acc

\* One pass of the sweep loop: obj_hash is unreachable, del is what
\* delete_object(obj_hash) did.  acc = [objects, deleted, errors].
sweep_one(acc, obj_hash, reachable, del) ==
    IF obj_hash \in reachable
    THEN [acc EXCEPT !.errors = @ \cup {<<"Safety violation", obj_hash>>}]
    ELSE IF del.exc # ""
    THEN [acc EXCEPT !.errors = @ \cup {<<"Failed to delete", obj_hash>>}]
    ELSE IF del.deleted
    THEN [acc EXCEPT !.objects = del.objects, !.deleted = @ \cup {obj_hash}]
    ELSE acc

\* The sweep loop of collect over the unreachable names still to visit; `failing`
\* are the names whose unlink raises OSError.
RECURSIVE sweep(_, _, _, _)
sweep(acc, todo, reachable, failing) ==
    IF todo = {}
    THEN acc
    ELSE LET obj_hash == CHOOSE h \in todo : TRUE
         IN  sweep(sweep_one(acc, obj_hash, reachable,
                             delete_object(acc.objects, obj_hash,
                                           IF obj_hash \in failing THEN "fail" ELSE "ok")),
                   todo \ {obj_hash}, reachable, failing)

\* A faulty variant of collect_marked: dry_run is not looked at.
collect_marked_ignoring_dry_run(objs, tmps, reachable, dry_run, failing) ==
    [reachable |-> reachable,
     unreachable |-> list_all_objects(objs, tmps) \ reachable]
    @@ sweep([objects |-> objs, deleted |-> {}, errors |-> {}],
             list_all_objects(objs, tmps) \ reachable, reachable, failing)

\* A faulty variant of collect_marked: the reachable set is not taken out of the
\* listing, so the sweep visits reachable objects too.
collect_marked_listing_all(objs, tmps, reachable, dry_run, failing) ==
    IF ~dry_run /\ list_all_objects(objs, tmps) # {}
    THEN [reachable |-> reachable, unreachable |-> list_all_objects(objs, tmps)]
         @@ sweep([objects |-> objs, deleted |-> {}, errors |-> {}],
                  list_all_objects(objs, tmps), reachable, failing)
    ELSE [reachable |-> reachable, unreachable |-> list_all_objects(objs, tmps),
          deleted |-> {}, errors |-> {}, objects |-> objs]

\* collect, phases 2 and 3: [reachable, unreachable, deleted, errors, objects].
collect_marked(objs, tmps, reachable, dry_run, failing) ==
    IF ~dry_run /\ list_all_objects(objs, tmps) \ reachable # {}
    THEN [reachable |-> reachable,
          unreachable |-> list_all_objects(objs, tmps) \ reachable]
         @@ sweep([objects |-> objs, deleted |-> {}, errors |-> {}],
                  list_all_objects(objs, tmps) \ reachable, reachable, failing)
    ELSE [reachable |-> reachable,
          unreachable |-> list_all_objects(objs, tmps) \ reachable,
          deleted |-> {}, errors |-> {}, objects |-> objs]

\* A faulty variant of collect: an object whose load raised is not kept in the
\* reachable set.
collect_dropping_unloadable(objs, tmps, roots, dry_run, failing) ==
    collect_marked(objs, tmps,
                   {h \in mark_reachable(objs, roots, {}) : load_object(objs, h).exc = ""},
                   dry_run, failing)

\* GarbageCollector.collect
collect(objs, tmps, roots, dry_run, failing) ==
    collect_marked(objs, tmps, mark_reachable(objs, roots, {}), dry_run, failing)

----------------------------------------------------------------------------
(* engine.py *)

\* The roots garbage_collect gathers: the values of the named references that
\* are truthy (neither None nor the empty string).
gc_roots(rfs) ==
    {get_snapshot_ref(rfs, n) : n \in list_snapshot_refs(rfs)} \ {"", "None"}

\* A faulty variant of garbage_collect: every stored snapshot is taken as a root.
garbage_collect_rooting_snapshots(objs, tmps, rfs, dry_run, failing) ==
    collect(objs, tmps,
            gc_roots(rfs) \cup {h \in DOMAIN objs :
                                   /\ load_object(objs, h).exc = ""
                                   /\ load_object(objs, h).obj.type = "snapshot"},
            dry_run, failing)

\* SnapshotStoreEngine.garbage_collect
garbage_collect(objs, tmps, rfs, dry_run, failing) ==
    collect(objs, tmps, gc_roots(rfs), dry_run, failing)

\* What the mark phase of garbage_collect finds.
gc_reachable(objs, rfs) == mark_reachable(objs, gc_roots(rfs), {})

\* SnapshotStoreEngine.verify_object: get_object(obj_hash, verify=True), then True.
verify_object(objs, obj_hash) == get_object(objs, obj_hash, TRUE)

\* A faulty variant of after_sub: the errors of the recursive call are dropped.
after_sub_ignoring_errors(acc, sub) ==
    [errors |-> acc.errors, visited |-> sub.visited]

\* The reference loop after a recursive call returned `sub`.
after_sub(acc, sub) ==
    [errors |-> acc.errors \o (IF sub.valid THEN <<>> ELSE sub.errors),
     visited |-> sub.visited]

\* verify_snapshot_recursive: [valid, errors, visited]; `visited` is the one set
\* all the calls share, `order` the order in which sets of digests are iterated.
RECURSIVE verify_snapshot_recursive(_, _, _, _)
RECURSIVE verify_references(_, _, _, _)
verify_references(objs, todo, acc, order) ==
    LET
        \* The try block of the reference loop, up to the recursion: "" when the
        \* reference loads and passes the structure and integrity checks.
        reference_check(loaded, ref_hash) ==
            IF loaded.exc # "" THEN loaded.exc
            ELSE IF verify_object_structure(loaded.obj) # ""
            THEN verify_object_structure(loaded.obj)
            ELSE verify_object_integrity(loaded.obj, ref_hash)
    IN
    IF todo = <<>>
    THEN [valid |-> acc.errors = <<>>, errors |-> acc.errors, visited |-> acc.visited]
    ELSE IF reference_check(get_object(objs, Head(todo), FALSE), Head(todo)) # ""
    THEN [valid |-> FALSE,
          errors |-> Append(acc.errors, <<"Failed to verify reference", Head(todo)>>),
          visited |-> acc.visited]
    ELSE IF get_object(objs, Head(todo), FALSE).obj.type = "snapshot"
    THEN verify_references(
             objs, Tail(todo),
             after_sub(acc, verify_snapshot_recursive(objs, Head(todo), acc.visited,
                                                      order)),
             order)
    ELSE verify_references(objs, Tail(todo), acc, order)

verify_snapshot_recursive(objs, snapshot_hash, visited, order) ==
    LET
        \* verify_references_exist: the first missing reference raises
        \* ReferenceMissingError(obj_hash, ref_hash), whose message names the missing
        \* digest and the digest of the object that refers to it.
        verify_references_exist(objs1, obj_hash, todo) ==
            IF \A i \in DOMAIN todo : has_object(objs1, todo[i])
            THEN <<>>
            ELSE <<<<"references missing object",
                     todo[CHOOSE i \in DOMAIN todo :
                              /\ ~has_object(objs1, todo[i])
                              /\ \A j \in 1..(i - 1) : has_object(objs1, todo[j])],
                     obj_hash>>>>
        \* What verify_snapshot_recursive finds about the object itself, before it looks
        \* at the references: <<>> or the one error it returns with.
        snapshot_check(loaded, snapshot_hash1) ==
            IF loaded.exc # "" THEN <<<<"Failed to load", snapshot_hash1>>>>
            ELSE IF verify_object_structure(loaded.obj) # ""
            THEN <<<<"Invalid structure in", snapshot_hash1>>>>
            ELSE IF verify_object_integrity(loaded.obj, snapshot_hash1) # ""
            THEN <<<<"Corruption in", snapshot_hash1>>>>
            ELSE IF loaded.obj.type # "snapshot"
            THEN <<<<"is not a snapshot", snapshot_hash1>>>>
            ELSE <<>>
    IN
    LET
        \* The references of a snapshot in the order the set is iterated: those of
        \* `order` that are among them, in that order.
        in_order(references, order1) == SelectSeq(order1, LAMBDA h : h \in references)
    IN
    IF snapshot_hash \in visited
    THEN [valid |-> FALSE, errors |-> <<<<"Cycle detected", snapshot_hash>>>>,
          visited |-> visited]
    ELSE IF snapshot_check(get_object(objs, snapshot_hash, FALSE), snapshot_hash) # <<>>
    THEN [valid |-> FALSE,
          errors |-> snapshot_check(get_object(objs, snapshot_hash, FALSE),
                                    snapshot_hash),
          visited |-> visited \cup {snapshot_hash}]
    ELSE IF verify_references_exist(
                objs, snapshot_hash,
                in_order(extract_references(get_object(objs, snapshot_hash, FALSE).obj),
                         order)) # <<>>
    THEN [valid |-> FALSE,
          errors |-> verify_references_exist(
                         objs, snapshot_hash,
                         in_order(extract_references(
                                      get_object(objs, snapshot_hash, FALSE).obj),
                                  order)),
          visited |-> visited \cup {snapshot_hash}]
    ELSE verify_references(
             objs,
             in_order(extract_references(get_object(objs, snapshot_hash, FALSE).obj),
                      order),
             [errors |-> <<>>, visited |-> visited \cup {snapshot_hash}],
             order)

\* SnapshotStoreEngine.verify_snapshot: [valid, errors]
verify_snapshot(objs, snapshot_hash, order) ==
    verify_snapshot_recursive(objs, snapshot_hash, {}, order)

\* detect_tampering: verify_object on every name list_all_objects returns; the
\* names for which it raised, and the count of those for which it did not.
detect_tampering(objs, tmps) ==
    [tampered |-> {h \in list_all_objects(objs, tmps) : verify_object(objs, h).exc # ""},
     verified |-> Cardinality({h \in list_all_objects(objs, tmps) :
                                  verify_object(objs, h).exc = ""})]

\* detect_missing_objects: [broken_snapshots, missing_objects]
detect_missing_objects(objs, tmps, order) ==
    LET
        \* The words of 64 characters detect_missing_objects takes from an error message
        \* that contains "missing".  The message of ReferenceMissingError, "Object <h>
        \* references missing object <m>", has two of them; in the other messages
        \* a digest is followed by a colon and no word has 64 characters.
        missing_words(error) ==
            IF error[1] = "references missing object" THEN {error[2], error[3]} ELSE {}
        \* The names detect_missing_objects looks into: those that load (verify=False)
        \* as a record of type snapshot; the others are skipped.
        listed_snapshots(objs1, tmps1) ==
            {h \in list_all_objects(objs1, tmps1) :
                /\ get_object(objs1, h, FALSE).exc = ""
                /\ get_object(objs1, h, FALSE).obj.type = "snapshot"}
        \* The digests taken from the errors of one verify_snapshot answer.
        missing_in(errors) == UNION {missing_words(errors[i]) : i \in 1..Len(errors)}
        \* detect_missing_objects once each listed snapshot is verified; results maps a
        \* snapshot to what verify_snapshot answered.
        missing_collected(results) ==
            [broken_snapshots |-> {h \in DOMAIN results : ~results[h].valid},
             missing_objects |->
                 UNION {missing_in(results[h].errors) :
                           h \in {x \in DOMAIN results : ~results[x].valid}}]
    IN
    missing_collected([h \in listed_snapshots(objs, tmps) |->
                          verify_snapshot(objs, h, order)])

\* GarbageCollector.verify_gc_safety: the roots that do not exist and the roots
\* that exist and cannot be loaded.
gc_safety_issues(objs, roots) ==
    {<<"Root does not exist", r>> : r \in {x \in roots : ~has_object(objs, x)}}
    \cup {<<"Failed to load root", r>> :
             r \in {x \in roots : has_object(objs, x) /\ load_object(objs, x).exc # ""}}

\* SnapshotStoreEngine.verify_gc_safety
verify_gc_safety(objs, rfs) == gc_safety_issues(objs, gc_roots(rfs))

----------------------------------------------------------------------------
(* integration/sync_adapter.py, model/*.py *)

\* Bundle(bundle_data, metadata).to_dict()
BundleDict(bundle_data, metadata) ==
    [type |-> "bundle", content |-> bundle_data, metadata |-> metadata]

\* Snapshot(bundles, parent, metadata).to_dict()
SnapshotDict(bundles, parent, metadata) ==
    [type |-> "snapshot", content |-> [bundles |-> bundles, parent |-> parent],
     metadata |-> metadata]

\* import_bundle: [exc, digest, objects]
import_bundle(objs, bundle_data, io) ==
    LET
        \* _validate_bundle: the empty mapping "{}" is refused.
        validate_bundle(bundle_data1) ==
            IF bundle_data1 = "{}" THEN "InvalidObjectError" ELSE ""
    IN
    IF validate_bundle(bundle_data) # ""
    THEN [exc |-> validate_bundle(bundle_data), digest |-> "", objects |-> objs]
    ELSE put_object(objs, BundleDict(bundle_data, NoMetadata), io)

\* import_bundles: the payloads in order; the fail_at-th write raises OSError.
RECURSIVE import_bundles(_, _, _, _)
import_bundles(acc, bundles, i, fail_at) ==
    LET
        \* import_bundles after one more import_bundle: [exc, hashes, objects]
        imported_one(acc1, r) ==
            [exc |-> r.exc,
             hashes |-> IF r.exc = "" THEN Append(acc1.hashes, r.digest) ELSE acc1.hashes,
             objects |-> r.objects]
    IN
    IF i > Len(bundles) \/ acc.exc # ""
    THEN acc
    ELSE import_bundles(
             imported_one(acc, import_bundle(acc.objects, bundles[i],
                                             IF i = fail_at THEN "fail" ELSE "ok")),
             bundles, i + 1, fail_at)

\* create_snapshot_from_bundles: [exc, digest, objects]
create_snapshot_from_bundles(objs, bundle_hashes, parent, metadata, io) ==
    IF \E i \in DOMAIN bundle_hashes : ~has_object(objs, bundle_hashes[i])
    THEN [exc |-> "InvalidObjectError", digest |-> "", objects |-> objs]
    ELSE put_object(objs, SnapshotDict(bundle_hashes, parent, metadata), io)

\* import_and_snapshot: [exc, digest, objects, refs]; the fail_at-th write of the
\* call (bundles, then the snapshot, then the reference) raises OSError.
import_and_snapshot(objs, rfs, bundles, parent, snapshot_name, metadata, fail_at) ==
    LET
        \* import_and_snapshot once the bundles are imported.
        import_imported(imported, rfs1, parent1, snapshot_name1, metadata1, io_snap, io_ref) ==
            LET
                \* import_and_snapshot once the snapshot is created.
                import_snapshotted(snap, rfs2, snapshot_name2, io) ==
                    LET
                        \* import_and_snapshot, the named reference: [exc, digest, objects, refs]
                        import_named(snap1, named) ==
                            [exc |-> named.exc, digest |-> IF named.exc = "" THEN snap1.digest ELSE "",
                             objects |-> snap1.objects, refs |-> named.refs]
                    IN
                    IF snap.exc # "" \/ snapshot_name2 = ""
                    THEN [exc |-> snap.exc, digest |-> snap.digest, objects |-> snap.objects,
                          refs |-> rfs2]
                    ELSE import_named(snap, put_snapshot_ref(snap.objects, rfs2, snapshot_name2,
                                                             snap.digest, io))
            IN
            IF imported.exc # ""
            THEN [exc |-> imported.exc, digest |-> "", objects |-> imported.objects,
                  refs |-> rfs1]
            ELSE import_snapshotted(
                     create_snapshot_from_bundles(imported.objects, imported.hashes, parent1,
                                                  metadata1, io_snap),
                     rfs1, snapshot_name1, io_ref)
    IN
    import_imported(
        import_bundles([exc |-> "", hashes |-> <<>>, objects |-> objs],
                       bundles, 1, fail_at),
        rfs, parent, snapshot_name, metadata,
        IF fail_at = Len(bundles) + 1 THEN "fail" ELSE "ok",
        IF fail_at = Len(bundles) + 2 THEN "fail_write" ELSE "ok")

\* A faulty variant of extend_snapshot: the parent is not looked up.
extend_snapshot_unchecked(objs, rfs, parent_hash, new_bundles, snapshot_name, metadata, fail_at) ==
    import_and_snapshot(objs, rfs, new_bundles, parent_hash, snapshot_name, metadata,
                        fail_at)

\* extend_snapshot: the parent must be present.
extend_snapshot(objs, rfs, parent_hash, new_bundles, snapshot_name, metadata, fail_at) ==
    IF ~has_object(objs, parent_hash)
    THEN [exc |-> "InvalidObjectError", digest |-> "", objects |-> objs, refs |-> rfs]
    ELSE import_and_snapshot(objs, rfs, new_bundles, parent_hash, snapshot_name,
                             metadata, fail_at)

\* Snapshot.from_dict: ValueError when the record is not a snapshot.
from_dict(loaded) ==
    IF loaded.exc # "" THEN loaded.exc
    ELSE IF loaded.obj.type # "snapshot" THEN "ValueError"
    ELSE ""

\* The while loop of get_snapshot_chain: [exc, chain], the chain leaf first.
RECURSIVE chain_walk(_, _, _, _)
chain_walk(objs, current, chain, visited) ==
    IF current = NoParent
    THEN [exc |-> "", chain |-> chain]
    ELSE IF current \in visited
    THEN [exc |-> "InvalidObjectError", chain |-> <<>>]
    ELSE IF from_dict(get_object(objs, current, TRUE)) # ""
    THEN [exc |-> from_dict(get_object(objs, current, TRUE)), chain |-> <<>>]
    ELSE chain_walk(objs, get_object(objs, current, TRUE).obj.content.parent,
                    Append(chain, current), visited \cup {current})

\* A faulty variant of reversed: the chain is returned as it was walked.
reversed_as_walked(chain) == chain

\* list(reversed(chain))
reversed(chain) == [i \in 1..Len(chain) |-> chain[Len(chain) + 1 - i]]

\* get_snapshot_chain: [exc, chain], the chain root first.
get_snapshot_chain(objs, snapshot_hash) ==
    LET
        \* reversed applied to what the loop returned.
        chain_result(walked) == [exc |-> walked.exc, chain |-> reversed(walked.chain)]
    IN
    chain_result(chain_walk(objs, snapshot_hash, <<>>, {}))

----------------------------------------------------------------------------
(* The state machine *)

NoGC == [reachable |-> {}, unreachable |-> {}, deleted |-> {}, errors |-> {}]

\* A file of `files` as an optional value: <<content>>, or <<>> when absent.
FileAt(files, path) == IF path \in DOMAIN files THEN <<files[path]>> ELSE <<>>

\* No write is in progress.
Idle == [at |-> "idle", kind |-> "", op |-> "", name |-> "", path |-> "",
         tmp |-> "", data |-> <<>>, old |-> <<>>]

\* No collection is in progress: the fields of a run of GarbageCollector.collect
\* (the queue and reachable set of _mark_reachable, the digests it has loaded,
\* the names still to sweep) and of the result it builds.
NoCollector == [at |-> "idle", queue |-> <<>>, reachable |-> {}, loaded |-> <<>>,
                unreachable |-> {}, todo |-> {}, deleted |-> {}, errors |-> {}]

\* IncrementalGC.__init__ and invalidate_cache: no cache.
NoCache == [cache_valid |-> FALSE, reachable_cache |-> {}]

PutOps == {"put_blob", "put_bundle", "put_snapshot", "put_tree"}

\* The outcome of an engine operation: op and its arguments, the exception raised
\* ("" when it returned), the digest returned, the collector's result, and how
\* the call relates to the one before it.
Ret(op, name, arg, exc, digest, gc) ==
    LET
        \* How a call relates to the one before it: "same_put" when it puts the record the
        \* call before it put and returned from, "gc_clean" / "gc_errors" when it is a
        \* garbage_collect(dry_run=False) right after another one (without / with errors).
        After(last, op1, arg1) ==
            IF op1 \in PutOps /\ last.op = op1 /\ last.arg = arg1 /\ last.exc = ""
            THEN "same_put"
            ELSE IF op1 = "gc" /\ last.op = "gc"
            THEN (IF last.gc.errors = {} THEN "gc_clean" ELSE "gc_errors")
            ELSE ""
    IN
    [op |-> op, name |-> name, arg |-> arg, exc |-> exc, digest |-> digest, gc |-> gc,
     after |-> After(ret, op, arg), value |-> <<>>, valid |-> FALSE]

Init ==
    /\ objects = NoFiles
    /\ temps = NoFiles
    /\ refs = NoFiles
    /\ pc = Idle
    /\ crashes = 0
    /\ ret = [op |-> "initialize", name |-> "", arg |-> "", exc |-> "", digest |-> "",
              gc |-> NoGC, after |-> "", value |-> <<>>, valid |-> FALSE]
    /\ waiting = Idle
    /\ collector = NoCollector
    /\ incremental = NoCache

IO == {"ok", "fail"}

RefIO == {"ok", "fail", "fail_write"}

\* The sets of files whose unlink fails during one sweep.
Failing(files) == {F \in SUBSET files : Cardinality(F) <= MaxFailing}

\* The inputs of import_sync_bundles the table has a snapshot for: the payloads
\* of its bundles, its parent and its metadata.
Payloads(s) == [i \in DOMAIN Record(s).content.bundles |->
                   Record(Record(s).content.bundles[i]).content]

Importable == {s \in Digest : Record(s).type = "snapshot"}

\* No operation is under way (the process is between calls, or was restarted).
Ready == pc.at \in {"idle", "failed", "crashed"}

\* The operation returns (or raises): the files are as it left them.
Returns(op, name, arg, r, objs, rfs, gc) ==
    /\ objects' = objs
    /\ refs' = rfs
    /\ ret' = Ret(op, name, arg, r.exc, r.digest, gc)
    /\ pc' = Idle
    /\ UNCHANGED <<waiting, collector, incremental, temps, crashes>>

ObjectsReturn(op, arg, r) == Returns(op, "", arg, r, r.objects, refs, NoGC)

RefsReturn(op, name, arg, r) ==
    Returns(op, name, arg, [exc |-> r.exc, digest |-> ""], objects, r.refs, NoGC)

BothReturn(op, name, arg, r) == Returns(op, name, arg, r, r.objects, r.refs, NoGC)

GCReturn(op, r) ==
    Returns(op, "", "", [exc |-> "", digest |-> ""], r.objects, refs,
            [reachable |-> r.reachable, unreachable |-> r.unreachable,
             deleted |-> r.deleted, errors |-> r.errors])

\* put_blob / put_tree / put_snapshot: each builds the record of its kind and
\* hands it to put_object.
Put(op, kind) ==
    \E d \in Digest, io \in IO :
        /\ Ready
        /\ Record(d).type = kind
        /\ ObjectsReturn(op, d, put_object(objects, Record(d), io))

PutBlob == Put("put_blob", "blob")

PutSnapshot == Put("put_snapshot", "snapshot")

PutTree == Put("put_tree", "tree")

\* put_bundle goes through the adapter's import_bundle.
PutBundle ==
    \E d \in Digest, io \in IO :
        /\ Ready
        /\ Record(d).type = "bundle"
        /\ ObjectsReturn("put_bundle", d, import_bundle(objects, Record(d).content, io))

\* create_snapshot_ref(name, snapshot_hash)
CreateSnapshotRef ==
    \E n \in Name, d \in Digest, io \in RefIO :
        /\ Ready
        /\ RefsReturn("create_snapshot_ref", n, d,
                      put_snapshot_ref(objects, refs, n, d, io))

\* delete_snapshot_ref(name)
DeleteSnapshotRef ==
    \E n \in Name, io \in IO :
        /\ Ready
        /\ RefsReturn("delete_snapshot_ref", n, "", delete_snapshot_ref(refs, n, io))

\* garbage_collect(dry_run=True)
GarbageCollectDryRun ==
    /\ Ready
    /\ GCReturn("gc_dry_run", garbage_collect(objects, temps, refs, TRUE, {}))

\* garbage_collect(dry_run=False); unlink fails for the files of `failing`.
GarbageCollect ==
    \E failing \in Failing(DOMAIN objects) :
        /\ Ready
        /\ failing \cap gc_reachable(objects, refs) = {}
        /\ GCReturn("gc", garbage_collect(objects, temps, refs, FALSE, failing))

\* import_sync_bundles(bundles, parent, snapshot_name, metadata)
ImportSyncBundles ==
    \E s \in Importable, n \in Name \cup {""}, fail_at \in 0..1 :
        /\ Ready
        /\ BothReturn("import_sync_bundles", n, s,
                      import_and_snapshot(objects, refs, Payloads(s),
                                          Record(s).content.parent, n,
                                          Record(s).metadata, fail_at))

\* extend_snapshot(parent_hash, new_bundles, snapshot_name, metadata)
ExtendSnapshot ==
    \E s \in Importable, n \in Name \cup {""}, fail_at \in 0..1 :
        /\ Ready
        /\ Record(s).content.parent # NoParent
        /\ BothReturn("extend_snapshot", n, s,
                      extend_snapshot(objects, refs, Record(s).content.parent,
                                      Payloads(s), n, Record(s).metadata, fail_at))

----------------------------------------------------------------------------
(* The writes step by step, with the process dying in the middle *)

PutOp(kind) == CASE kind = "blob" -> "put_blob" [] kind = "bundle" -> "put_bundle"
                 [] kind = "snapshot" -> "put_snapshot" [] OTHER -> "put_tree"

\* A write cut short: the first half of the payload.
PartialOf(data) == SubSeq(data, 1, Len(data) \div 2)

\* put_object returns or raises without writing: the object is there and intact,
\* the record is refused, or the prefix directory cannot be made.
PutWithoutWrite ==
    \E d \in StepDigest, dir_ok \in BOOLEAN :
        /\ Ready
        /\ put_check(objects, Record(d)) = "write" => ~dir_ok
        /\ ObjectsReturn(PutOp(Record(d).type), d,
                         put_object(objects, Record(d), "fail"))

\* put_object reaches _write_object_atomic.
PutStart ==
    \E d \in StepDigest :
        /\ Ready
        /\ put_check(objects, Record(d)) = "write"
        /\ pc' = [at |-> "mkstemp", kind |-> "object", op |-> PutOp(Record(d).type),
                  name |-> "", path |-> compute_object_hash(Record(d)), tmp |-> "",
                  data |-> canonical_json(Record(d)),
                  old |-> FileAt(objects, compute_object_hash(Record(d)))]
        /\ UNCHANGED <<waiting, collector, incremental, objects, temps, refs, crashes, ret>>

\* A faulty variant of Mkstemp: the temporary file has a fixed name, so two
\* writers share it.
Mkstemp_fixed_name ==
    /\ pc.at = "mkstemp"
    /\ temps' = mkstemp(temps, TempOrder[1])
    /\ pc' = [pc EXCEPT !.at = "write", !.tmp = TempOrder[1]]
    /\ UNCHANGED <<waiting, collector, incremental, objects, refs, crashes, ret>>

Mkstemp ==
    LET
        \* The name mkstemp hands out: the first one not taken.
        free_temp(tmps) ==
            TempOrder[CHOOSE i \in 1..Len(TempOrder) :
                         /\ TempOrder[i] \notin DOMAIN tmps
                         /\ \A j \in 1..(i - 1) : TempOrder[j] \in DOMAIN tmps]
    IN
    /\ pc.at = "mkstemp"
    /\ Cardinality(DOMAIN temps) < Min(MaxTemps, Len(TempOrder))
    /\ temps' = mkstemp(temps, free_temp(temps))
    /\ pc' = [pc EXCEPT !.at = "write", !.tmp = free_temp(temps)]
    /\ UNCHANGED <<waiting, collector, incremental, objects, refs, crashes, ret>>

OsWrite ==
    /\ pc.at = "write"
    /\ temps' = os_write(temps, pc.tmp, pc.data)
    /\ pc' = [pc EXCEPT !.at = "close"]
    /\ UNCHANGED <<waiting, collector, incremental, objects, refs, crashes, ret>>

OsClose ==
    /\ pc.at = "close"
    /\ pc' = [pc EXCEPT !.at = "replace"]
    /\ UNCHANGED <<waiting, collector, incremental, objects, temps, refs, crashes, ret>>

OsReplace ==
    LET
        \* ... and the temporary files after it.
        os_replace_temps(tmps, temp_path) == WithoutFile(tmps, temp_path)
    IN
    /\ pc.at = "replace"
    /\ objects' = os_replace(objects, temps, pc.tmp, pc.path)
    /\ temps' = os_replace_temps(temps, pc.tmp)
    /\ ret' = Ret(pc.op, "", pc.path, "", pc.path, NoGC)
    /\ pc' = Idle
    /\ UNCHANGED <<waiting, collector, incremental, refs, crashes>>

\* An OSError at the step the write is at: the except block cleans up and
\* StorageError is raised.
WriteFails ==
    LET
        \* The except block: the temporary file is unlinked, unless that fails too.
        cleanup(tmps, temp_path, unlink_ok) ==
            IF temp_path # "" /\ temp_path \in DOMAIN tmps /\ unlink_ok
            THEN WithoutFile(tmps, temp_path)
            ELSE tmps
    IN
    \E unlink_ok \in BOOLEAN :
        /\ pc.at \in {"mkstemp", "write", "close", "replace"}
        /\ temps' = cleanup(temps, pc.tmp, unlink_ok)
        /\ ret' = Ret(pc.op, "", pc.path, "StorageError", "", NoGC)
        /\ pc' = [pc EXCEPT !.at = "failed"]
        /\ UNCHANGED <<waiting, collector, incremental, objects, refs, crashes>>

\* put_snapshot_ref refuses an absent target.
RefWithoutWrite ==
    \E n \in StepName, d \in StepDigest :
        /\ Ready
        /\ ~has_object(objects, d)
        /\ RefsReturn("create_snapshot_ref", n, d,
                      put_snapshot_ref(objects, refs, n, d, "ok"))

\* put_snapshot_ref reaches write_text.
RefStart ==
    \E n \in StepName, d \in StepDigest :
        /\ Ready
        /\ has_object(objects, d)
        /\ pc' = [at |-> "ref_open", kind |-> "ref", op |-> "create_snapshot_ref",
                  name |-> n, path |-> d, tmp |-> "", data |-> HexText(d),
                  old |-> FileAt(refs, n)]
        /\ UNCHANGED <<waiting, collector, incremental, objects, temps, refs, crashes, ret>>

RefOpen ==
    /\ pc.at = "ref_open"
    /\ refs' = open_truncate(refs, pc.name)
    /\ pc' = [pc EXCEPT !.at = "ref_write"]
    /\ UNCHANGED <<waiting, collector, incremental, objects, temps, crashes, ret>>

RefWrite ==
    /\ pc.at = "ref_write"
    /\ refs' = WithFile(refs, pc.name, pc.data)
    /\ ret' = Ret(pc.op, pc.name, pc.path, "", "", NoGC)
    /\ pc' = Idle
    /\ UNCHANGED <<waiting, collector, incremental, objects, temps, crashes>>

\* An OSError from mkdir, open or the write: StorageError, the file as it is.
RefFails ==
    /\ pc.at \in {"ref_open", "ref_write"}
    /\ ret' = Ret(pc.op, pc.name, pc.path, "StorageError", "", NoGC)
    /\ pc' = [pc EXCEPT !.at = "failed"]
    /\ UNCHANGED <<waiting, collector, incremental, objects, temps, refs, crashes>>

\* os.write accepts only the first bytes of the payload and returns their
\* number; the return value is not looked at and the write goes on to the close.
OsWriteShort ==
    /\ pc.at = "write"
    /\ temps' = os_write(temps, pc.tmp, PartialOf(pc.data))
    /\ pc' = [pc EXCEPT !.at = "close"]
    /\ UNCHANGED <<waiting, collector, incremental, objects, refs, crashes, ret>>

\* The process dies in the middle of a write; the files stay as they are, the
\* file being written possibly cut short.
Crash ==
    \E torn \in BOOLEAN :
        /\ pc.at \in {"mkstemp", "write", "close", "replace", "ref_open", "ref_write"}
        /\ crashes < MaxCrashes
        /\ torn => pc.at \in {"write", "ref_write"}
        /\ temps' = IF torn /\ pc.at = "write"
                    THEN os_write(temps, pc.tmp, PartialOf(pc.data)) ELSE temps
        /\ refs' = IF torn /\ pc.at = "ref_write"
                   THEN WithFile(refs, pc.name, PartialOf(pc.data)) ELSE refs
        /\ crashes' = crashes + 1
        /\ pc' = [pc EXCEPT !.at = "crashed"]
        /\ ret' = Ret("crash", pc.name, pc.path, "", "", NoGC)
        /\ UNCHANGED <<waiting, collector, incremental, objects>>

\* delete_snapshot_ref and garbage_collect between the step-by-step writes.
StepDeleteSnapshotRef ==
    \E n \in StepName, io \in IO :
        /\ Ready
        /\ RefsReturn("delete_snapshot_ref", n, "", delete_snapshot_ref(refs, n, io))

Next ==
    \/ PutBlob
    \/ PutBundle
    \/ PutSnapshot
    \/ PutTree
    \/ CreateSnapshotRef
    \/ DeleteSnapshotRef
    \/ GarbageCollectDryRun
    \/ GarbageCollect
    \/ ImportSyncBundles
    \/ ExtendSnapshot

Spec == Init /\ [][Next]_vars

NextCrash ==
    \/ PutWithoutWrite
    \/ PutStart
    \/ Mkstemp
    \/ OsWrite
    \/ OsClose
    \/ OsReplace
    \/ WriteFails
    \/ RefWithoutWrite
    \/ RefStart
    \/ RefOpen
    \/ RefWrite
    \/ RefFails
    \/ Crash
    \/ StepDeleteSnapshotRef
    \/ GarbageCollectDryRun
    \/ GarbageCollect

\* The engine with its writes taken step by step and the process dying at most
\* MaxCrashes times.
SpecCrash == Init /\ [][NextCrash]_vars

----------------------------------------------------------------------------
(* Object files changed from outside the store, and the operations that read them *)

\* The object files that are not what put wrote.
Tampered(objs) == {d \in DOMAIN objs : objs[d] # Encoding[d]}

\* The orders in which a set of digests may be iterated.
Orders == {DigestOrder, reversed(DigestOrder)}

\* A call that changes no file returns `value` (and `valid`) or raises exc.
Answers(op, arg, exc, value, valid) ==
    /\ ret' = [Ret(op, "", arg, exc, "", NoGC) EXCEPT !.value = value, !.valid = valid]
    /\ pc' = Idle
    /\ UNCHANGED <<waiting, collector, incremental, objects, temps, refs, crashes>>

\* Somebody writes to an object file behind the store's back.
Tamper ==
    LET
        \* The records whose encoding a changed file may hold instead of its own.
        ReplaceWith == {"b2", "s4", "x1"}
        \* What the file of digest d may be changed to: its last byte dropped, its last
        \* byte changed, data or whitespace appended, a byte that is not UTF-8, or the
        \* encoding of another record.
        Corruptions(d) ==
            ({SubSeq(Encoding[d], 1, Len(Encoding[d]) - 1),
              [Encoding[d] EXCEPT ![Len(Encoding[d])] = "?"],
              Encoding[d] \o <<"junk">>,
              Encoding[d] \o <<" ">>,
              [Encoding[d] EXCEPT ![1] = "0xFF"]}
             \cup {Encoding[r] : r \in ReplaceWith}) \ {Encoding[d]}
    IN
    \E d \in DOMAIN objects :
        \E c \in Corruptions(d) :
            /\ Ready
            /\ Cardinality(Tampered(objects) \cup {d}) <= MaxTampered
            /\ objects' = WithFile(objects, d, c)
            /\ ret' = Ret("tamper", "", d, "", "", NoGC)
            /\ pc' = Idle
            /\ UNCHANGED <<waiting, collector, incremental, temps, refs, crashes>>

\* put_blob / put_snapshot / put_bundle of a record of TamperDigest.
TamperPut ==
    \E d \in TamperDigest, io \in IO :
        /\ Ready
        /\ Record(d).type # "bundle"
        /\ ObjectsReturn(PutOp(Record(d).type), d, put_object(objects, Record(d), io))

TamperPutBundle ==
    \E d \in TamperDigest, io \in IO :
        /\ Ready
        /\ Record(d).type = "bundle"
        /\ ObjectsReturn("put_bundle", d, import_bundle(objects, Record(d).content, io))

GetAnswers(d, got) ==
    Answers("get_object", d, got.exc,
            IF got.exc = "" THEN canonical_json(got.obj) ELSE <<>>, FALSE)

\* get_object_raw(obj_hash): the record comes back, here in its canonical form.
GetObject ==
    \E d \in TamperDigest :
        /\ Ready
        /\ GetAnswers(d, get_object(objects, d, TRUE))

VerifyAnswers(d, got) == Answers("verify_object", d, got.exc, <<>>, got.exc = "")

\* verify_object(obj_hash)
VerifyObject ==
    \E d \in TamperDigest :
        /\ Ready
        /\ VerifyAnswers(d, verify_object(objects, d))

SnapshotAnswers(d, r) == Answers("verify_snapshot", d, "", r.errors, r.valid)

\* verify_snapshot(snapshot_hash)
VerifySnapshot ==
    \E d \in TamperDigest, order \in Orders :
        /\ Ready
        /\ SnapshotAnswers(d, verify_snapshot(objects, d, order))

\* sync_adapter.get_snapshot_chain(snapshot_hash)
GetSnapshotChain ==
    LET
        ChainAnswers(d, r) == Answers("get_snapshot_chain", d, r.exc, r.chain, FALSE)
    IN
    \E d \in TamperDigest :
        /\ Ready
        /\ ChainAnswers(d, get_snapshot_chain(objects, d))

NextTamper ==
    \/ TamperPut
    \/ TamperPutBundle
    \/ Tamper
    \/ GetObject
    \/ VerifyObject
    \/ VerifySnapshot
    \/ GetSnapshotChain

\* The store with at most MaxTampered object files changed from outside.
SpecTamper == Init /\ [][NextTamper]_vars

----------------------------------------------------------------------------
(* import_and_snapshot write by write, with the process dying between writes *)

\* import_sync_bundles begins; pc.data collects the digests of the bundles
\* imported, pc.tmp the digest of the snapshot once created.
ImportStart ==
    \E s \in Importable, n \in Name \cup {""} :
        /\ Ready
        /\ pc' = [at |-> "import_bundle", kind |-> "import",
                  op |-> "import_sync_bundles", name |-> n, path |-> s, tmp |-> "",
                  data |-> <<>>, old |-> <<>>]
        /\ UNCHANGED <<waiting, collector, incremental, objects, temps, refs, crashes, ret>>

\* The call raises: what was written stays.
ImportRaises(exc) ==
    /\ ret' = Ret(pc.op, pc.name, pc.path, exc, "", NoGC)
    /\ pc' = [pc EXCEPT !.at = "failed"]

\* A faulty variant of ImportedBundle: the named ref is written as soon as a bundle
\* is, before the snapshot it names.
ImportedBundle_ref_first(r) ==
    /\ objects' = r.objects
    /\ refs' = IF r.exc = "" /\ pc.name # ""
                THEN write_text(refs, pc.name, HexText(pc.path))
                ELSE refs
    /\ IF r.exc # ""
       THEN ImportRaises(r.exc)
       ELSE /\ pc' = [pc EXCEPT !.data = Append(@, r.digest),
                                !.at = IF Len(pc.data) + 1 = Len(Payloads(pc.path))
                                       THEN "import_snapshot" ELSE "import_bundle"]
            /\ ret' = ret
    /\ UNCHANGED <<waiting, collector, incremental, temps, crashes>>

ImportedBundle(r) ==
    /\ objects' = r.objects
    /\ IF r.exc # ""
       THEN ImportRaises(r.exc)
       ELSE /\ pc' = [pc EXCEPT !.data = Append(@, r.digest),
                                !.at = IF Len(pc.data) + 1 = Len(Payloads(pc.path))
                                       THEN "import_snapshot" ELSE "import_bundle"]
            /\ ret' = ret
    /\ UNCHANGED <<waiting, collector, incremental, temps, refs, crashes>>

\* import_bundles: the next payload is imported.
ImportBundleStep ==
    \E io \in IO :
        /\ pc.at = "import_bundle"
        /\ ImportedBundle(import_bundle(objects, Payloads(pc.path)[Len(pc.data) + 1], io))

\* create_snapshot_from_bundles
ImportSnapshotStep ==
    LET
        ImportedSnapshot(r) ==
            /\ objects' = r.objects
            /\ IF r.exc # ""
               THEN ImportRaises(r.exc)
               ELSE IF pc.name = ""
               THEN /\ ret' = Ret(pc.op, pc.name, pc.path, "", r.digest, NoGC)
                    /\ pc' = Idle
               ELSE /\ pc' = [pc EXCEPT !.at = "import_ref", !.tmp = r.digest]
                    /\ ret' = ret
            /\ UNCHANGED <<waiting, collector, incremental, temps, refs, crashes>>
    IN
    \E io \in IO :
        /\ pc.at = "import_snapshot"
        /\ ImportedSnapshot(create_snapshot_from_bundles(
                                objects, pc.data, Record(pc.path).content.parent,
                                Record(pc.path).metadata, io))

\* put_snapshot_ref(snapshot_name, snapshot_hash), the write taken as one step.
ImportRefStep ==
    LET
        ImportedRef(r) ==
            /\ refs' = r.refs
            /\ IF r.exc # ""
               THEN ImportRaises(r.exc)
               ELSE /\ ret' = Ret(pc.op, pc.name, pc.path, "", pc.tmp, NoGC)
                    /\ pc' = Idle
            /\ UNCHANGED <<waiting, collector, incremental, objects, temps, crashes>>
    IN
    \E io \in IO :
        /\ pc.at = "import_ref"
        /\ ImportedRef(put_snapshot_ref(objects, refs, pc.name, pc.tmp, io))

\* The process dies between two writes of the import.
ImportCrash ==
    /\ pc.at \in {"import_bundle", "import_snapshot", "import_ref"}
    /\ crashes < MaxCrashes
    /\ crashes' = crashes + 1
    /\ pc' = [pc EXCEPT !.at = "crashed"]
    /\ ret' = Ret("crash", pc.name, pc.path, "", "", NoGC)
    /\ UNCHANGED <<waiting, collector, incremental, objects, temps, refs>>

NextImport ==
    \/ ImportStart
    \/ ImportBundleStep
    \/ ImportSnapshotStep
    \/ ImportRefStep
    \/ ImportCrash
    \/ DeleteSnapshotRef
    \/ GarbageCollect

\* A store filled only by import_sync_bundles, write by write, with the process
\* dying between writes at most MaxCrashes times.
SpecImport == Init /\ [][NextImport]_vars

----------------------------------------------------------------------------
(* Every engine operation on a store whose object files may be changed from outside *)

\* put_bundle / put_snapshot of a record of ScanDigest.
ScanPut ==
    \E d \in ScanDigest, io \in IO :
        /\ Ready
        /\ ObjectsReturn(PutOp(Record(d).type), d,
                         IF Record(d).type = "bundle"
                         THEN import_bundle(objects, Record(d).content, io)
                         ELSE put_object(objects, Record(d), io))

\* import_sync_bundles(bundles, parent, snapshot_name, metadata)
ScanImportSyncBundles ==
    \E s \in ScanDigest \cap Importable, n \in ScanName \cup {""}, fail_at \in 0..1 :
        /\ Ready
        /\ BothReturn("import_sync_bundles", n, s,
                      import_and_snapshot(objects, refs, Payloads(s),
                                          Record(s).content.parent, n,
                                          Record(s).metadata, fail_at))

\* extend_snapshot(parent_hash, new_bundles, snapshot_name, metadata)
ScanExtendSnapshot ==
    \E s \in ScanDigest \cap Importable, n \in ScanName \cup {""}, fail_at \in 0..1 :
        /\ Ready
        /\ Record(s).content.parent # NoParent
        /\ BothReturn("extend_snapshot", n, s,
                      extend_snapshot(objects, refs, Record(s).content.parent,
                                      Payloads(s), n, Record(s).metadata, fail_at))

\* create_snapshot_ref(name, snapshot_hash)
ScanCreateSnapshotRef ==
    \E n \in ScanName, d \in ScanDigest, io \in RefIO :
        /\ Ready
        /\ RefsReturn("create_snapshot_ref", n, d,
                      put_snapshot_ref(objects, refs, n, d, io))

\* delete_snapshot_ref returned: ret.valid is the boolean it returned, ret.value
\* the value the reference had when it was deleted.
RefDeleted(n, r) ==
    /\ refs' = r.refs
    /\ ret' = [Ret("delete_snapshot_ref", n, "", r.exc, "", NoGC)
                  EXCEPT !.valid = r.deleted,
                         !.value = IF r.deleted THEN <<get_snapshot_ref(refs, n)>>
                                   ELSE <<>>]
    /\ pc' = Idle
    /\ UNCHANGED <<waiting, collector, incremental, objects, temps, crashes>>

\* delete_snapshot_ref(name)
ScanDeleteSnapshotRef ==
    \E n \in ScanName, io \in IO :
        /\ Ready
        /\ RefDeleted(n, delete_snapshot_ref(refs, n, io))

\* garbage_collect returned r; when the call before it was a delete_snapshot_ref
\* that deleted a reference, ret.value keeps the value that reference had.
Collected(op, r) ==
    /\ objects' = r.objects
    /\ ret' = [Ret(op, "", "", "", "",
                   [reachable |-> r.reachable, unreachable |-> r.unreachable,
                    deleted |-> r.deleted, errors |-> r.errors])
                  EXCEPT !.value = IF ret.op = "delete_snapshot_ref" /\ ret.valid
                                   THEN ret.value ELSE <<>>]
    /\ pc' = Idle
    /\ UNCHANGED <<waiting, collector, incremental, temps, refs, crashes>>

\* garbage_collect(dry_run=True)
ScanGarbageCollectDryRun ==
    /\ Ready
    /\ Collected("gc_dry_run", garbage_collect(objects, temps, refs, TRUE, {}))

\* garbage_collect(dry_run=False)
ScanGarbageCollect ==
    /\ Ready
    /\ Collected("gc", garbage_collect(objects, temps, refs, FALSE, {}))

\* detect_tampering()
DetectTampering ==
    LET
        TamperingAnswers(r) ==
            Answers("detect_tampering", "", "", <<r.tampered, r.verified>>, r.tampered = {})
    IN
    /\ Ready
    /\ TamperingAnswers(detect_tampering(objects, temps))

\* detect_missing_objects()
DetectMissingObjects ==
    LET
        MissingAnswers(r) ==
            Answers("detect_missing_objects", "", "",
                    <<r.broken_snapshots, r.missing_objects>>, r.broken_snapshots = {})
    IN
    \E order \in Orders :
        /\ Ready
        /\ MissingAnswers(detect_missing_objects(objects, temps, order))

\* verify_gc_safety()
VerifyGCSafety ==
    LET
        SafetyAnswers(issues) == Answers("verify_gc_safety", "", "", <<issues>>, issues = {})
    IN
    /\ Ready
    /\ SafetyAnswers(verify_gc_safety(objects, refs))

\* get_object_raw, verify_object, verify_snapshot of a digest of ScanDigest.
ScanGetObject ==
    \E d \in ScanDigest :
        /\ Ready
        /\ GetAnswers(d, get_object(objects, d, TRUE))

ScanVerifyObject ==
    \E d \in ScanDigest :
        /\ Ready
        /\ VerifyAnswers(d, verify_object(objects, d))

ScanVerifySnapshot ==
    \E d \in ScanDigest, order \in Orders :
        /\ Ready
        /\ SnapshotAnswers(d, verify_snapshot(objects, d, order))

----------------------------------------------------------------------------
(* storage/gc.py, IncrementalGC: mark and sweep as separate calls *)

\* IncrementalGC.mark_batch(roots) with the roots garbage_collect would gather:
\* the whole mark runs and its result is kept as the cache.
MarkBatch ==
    /\ Ready
    /\ incremental' = [cache_valid |-> TRUE,
                       reachable_cache |-> mark_reachable(objects, gc_roots(refs), {})]
    /\ ret' = [Ret("mark_batch", "", "", "", "", NoGC)
                  EXCEPT !.value = <<Cardinality(mark_reachable(objects, gc_roots(refs), {}))>>,
                         !.valid = TRUE]
    /\ pc' = Idle
    /\ UNCHANGED <<waiting, collector, objects, temps, refs, crashes>>

\* IncrementalGC.sweep_batch(batch_size) with a valid cache: it lists the store,
\* takes out the cached reachable set and deletes until batch_size objects are
\* deleted.  The set is walked in no particular order: `visited` are the names
\* the loop came to before it stopped, `failing` those whose unlink raised.
SweepBatch ==
    LET
        unreachable == list_all_objects(objects, temps) \ incremental.reachable_cache
        swept(visited, failing) ==
            sweep([objects |-> objects, deleted |-> {}, errors |-> {}],
                  visited, incremental.reachable_cache, failing)
    IN
    \E batch_size \in 1..MaxBatch :
        \E visited \in SUBSET unreachable :
            \E failing \in Failing(visited) :
                /\ Ready
                /\ incremental.cache_valid
                /\ Cardinality(visited \ failing) <= batch_size
                /\ Cardinality(visited \ failing) < batch_size => visited = unreachable
                /\ objects' = swept(visited, failing).objects
                /\ ret' = Ret("sweep_batch", "", "", "", "",
                              [reachable |-> incremental.reachable_cache,
                               unreachable |-> unreachable,
                               deleted |-> swept(visited, failing).deleted,
                               errors |-> swept(visited, failing).errors])
                /\ pc' = Idle
                /\ UNCHANGED <<waiting, collector, incremental, temps, refs, crashes>>

\* sweep_batch called without a valid cache: an error, nothing deleted.
SweepBatchRefused ==
    /\ Ready
    /\ ~incremental.cache_valid
    /\ ret' = Ret("sweep_batch", "", "", "", "",
                  [NoGC EXCEPT !.errors = {<<"Cache not valid, run mark_batch first">>}])
    /\ pc' = Idle
    /\ UNCHANGED <<waiting, collector, incremental, objects, temps, refs, crashes>>

\* IncrementalGC.invalidate_cache()
InvalidateCache ==
    /\ Ready
    /\ incremental' = NoCache
    /\ ret' = Ret("invalidate_cache", "", "", "", "", NoGC)
    /\ pc' = Idle
    /\ UNCHANGED <<waiting, collector, objects, temps, refs, crashes>>

NextInc ==
    \/ PutBundle
    \/ PutSnapshot
    \/ CreateSnapshotRef
    \/ DeleteSnapshotRef
    \/ MarkBatch
    \/ SweepBatch
    \/ SweepBatchRefused
    \/ InvalidateCache

\* The engine's puts and references with an IncrementalGC on the same store.
SpecInc == Init /\ [][NextInc]_vars

----------------------------------------------------------------------------
(* References and objects side by side, with more than one name *)

FrameName == {NameOrder[i] : i \in 1..Min(NumFrameNames, Len(NameOrder))}

\* create_snapshot_ref(name, snapshot_hash) with a name of FrameName; ret.value
\* keeps the value the reference had before the call, if it existed.
FrameCreateSnapshotRef ==
    \E n \in FrameName, d \in ScanDigest, io \in RefIO :
        /\ Ready
        /\ refs' = put_snapshot_ref(objects, refs, n, d, io).refs
        /\ ret' = [Ret("create_snapshot_ref", n, d,
                       put_snapshot_ref(objects, refs, n, d, io).exc, "", NoGC)
                      EXCEPT !.value = IF n \in DOMAIN refs
                                       THEN <<get_snapshot_ref(refs, n)>> ELSE <<>>]
        /\ pc' = Idle
        /\ UNCHANGED <<waiting, collector, incremental, objects, temps, crashes>>

\* delete_snapshot_ref(name) with a name of FrameName.
FrameDeleteSnapshotRef ==
    \E n \in FrameName, io \in IO :
        /\ Ready
        /\ RefsReturn("delete_snapshot_ref", n, "", delete_snapshot_ref(refs, n, io))

NextFrame ==
    \/ ScanPut
    \/ FrameCreateSnapshotRef
    \/ FrameDeleteSnapshotRef
    \/ ScanGarbageCollectDryRun
    \/ ScanGarbageCollect

\* Puts, collections and references under several names on one store.
SpecFrame == Init /\ [][NextFrame]_vars

----------------------------------------------------------------------------
(* storage/gc.py, GarbageCollector.collect step by step, next to other callers *)

\* garbage_collect(dry_run=False) begins: the roots are read from the named
\* references and put in the queue of _mark_reachable, in some order.
Collecting(order) ==
    LET
        is_root(h) == h \in gc_roots(refs)
    IN
    /\ collector.at = "idle"
    /\ collector' = [NoCollector EXCEPT !.at = "mark",
                                        !.queue = SelectSeq(order \o <<"??">>, is_root)]
    /\ UNCHANGED <<waiting, incremental, objects, temps, refs, crashes, ret>>

\* A second caller begins a collection while the first may be in the middle of
\* an operation of its own.
CollectStart ==
    \E order \in Orders :
        /\ Collecting(order)
        /\ pc' = pc

\* The caller itself begins a collection and does nothing else until it returns.
GarbageCollectStart ==
    \E order \in Orders :
        /\ Ready
        /\ Collecting(order)
        /\ pc' = [Idle EXCEPT !.at = "collect", !.op = "gc"]

\* The caller's position once the collection has returned: a caller that ran
\* the collection itself is between operations again.
Returned(at) == IF at.at = "collect" THEN Idle ELSE at

\* A faulty variant of MarkStep: the head of the queue is not looked up in the
\* reachable set, so a digest reached again is loaded again.
MarkStep_without_visited ==
    LET
        obj_hash == Head(collector.queue)
        is_ref(h) == h \in loaded_references(load_object(objects, obj_hash))
    IN
    /\ collector.at = "mark"
    /\ collector.queue # <<>>
    /\ Len(collector.loaded) < 2 * Len(DigestOrder)
    /\ collector' =
           IF ~has_object(objects, obj_hash)
           THEN [collector EXCEPT !.queue = Tail(@)]
           ELSE [collector EXCEPT !.queue = Tail(@) \o SelectSeq(DigestOrder, is_ref),
                                  !.reachable = @ \cup {obj_hash},
                                  !.loaded = Append(@, obj_hash)]
    /\ UNCHANGED <<waiting, incremental, objects, temps, refs, pc, crashes, ret>>

\* One pass of the loop of _mark_reachable: the head of the queue is skipped when
\* it is marked already or not stored; otherwise it is marked and loaded, and its
\* references that are not marked are appended.
MarkStep ==
    LET
        obj_hash == Head(collector.queue)
        is_new(h) == h \in loaded_references(load_object(objects, obj_hash))
                           \ (collector.reachable \cup {obj_hash})
    IN
    /\ collector.at = "mark"
    /\ collector.queue # <<>>
    /\ collector' =
           IF obj_hash \in collector.reachable \/ ~has_object(objects, obj_hash)
           THEN [collector EXCEPT !.queue = Tail(@)]
           ELSE [collector EXCEPT !.queue = Tail(@) \o SelectSeq(DigestOrder, is_new),
                                  !.reachable = @ \cup {obj_hash},
                                  !.loaded = Append(@, obj_hash)]
    /\ UNCHANGED <<waiting, incremental, objects, temps, refs, pc, crashes, ret>>

\* The queue is empty: collect lists the store and takes out the reachable set;
\* with nothing to sweep it returns.
ListAll ==
    LET
        unreachable == list_all_objects(objects, temps) \ collector.reachable
    IN
    /\ collector.at = "mark"
    /\ collector.queue = <<>>
    /\ IF unreachable = {}
       THEN /\ collector' = NoCollector
            /\ ret' = Ret("gc", "", "", "", "",
                          [reachable |-> collector.reachable, unreachable |-> {},
                           deleted |-> {}, errors |-> {}])
            /\ pc' = Returned(pc)
       ELSE /\ collector' = [collector EXCEPT !.at = "sweep",
                                              !.unreachable = unreachable,
                                              !.todo = unreachable]
            /\ ret' = ret
            /\ pc' = pc
    /\ UNCHANGED <<waiting, incremental, objects, temps, refs, crashes>>

\* One pass of the sweep loop; after the last one collect returns its result.
SweepStep ==
    LET
        swept(obj_hash, io) ==
            sweep_one([objects |-> objects, deleted |-> collector.deleted,
                       errors |-> collector.errors],
                      obj_hash, collector.reachable, delete_object(objects, obj_hash, io))
    IN
    \E obj_hash \in collector.todo, io \in IO :
        /\ collector.at = "sweep"
        /\ io = "fail" => Cardinality(collector.errors) < MaxFailing
        /\ objects' = swept(obj_hash, io).objects
        /\ IF collector.todo = {obj_hash}
           THEN /\ collector' = NoCollector
                /\ ret' = Ret("gc", "", "", "", "",
                              [reachable |-> collector.reachable,
                               unreachable |-> collector.unreachable,
                               deleted |-> swept(obj_hash, io).deleted,
                               errors |-> swept(obj_hash, io).errors])
                /\ pc' = Returned(pc)
           ELSE /\ collector' = [collector EXCEPT !.todo = @ \ {obj_hash},
                                                  !.deleted = swept(obj_hash, io).deleted,
                                                  !.errors = swept(obj_hash, io).errors]
                /\ ret' = ret
                /\ pc' = pc
        /\ UNCHANGED <<waiting, incremental, temps, refs, crashes>>

NextRace ==
    \/ ImportStart
    \/ ImportBundleStep
    \/ ImportSnapshotStep
    \/ ImportRefStep
    \/ CollectStart
    \/ MarkStep
    \/ ListAll
    \/ SweepStep

\* import_and_snapshot write by write next to a collection run step by step.
SpecRace == Init /\ [][NextRace]_vars

\* The operating system takes the processor from the caller that runs and gives
\* it to the second caller, which goes on where it stood.
ContextSwitch ==
    /\ pc # waiting
    /\ pc' = waiting
    /\ waiting' = pc
    /\ UNCHANGED <<collector, incremental, objects, temps, refs, crashes, ret>>

NextTwoPuts ==
    \/ PutWithoutWrite
    \/ PutStart
    \/ Mkstemp
    \/ OsWrite
    \/ OsClose
    \/ OsReplace
    \/ ContextSwitch

\* Two callers of put_object on one store, interleaved step by step.
SpecTwoPuts == Init /\ [][NextTwoPuts]_vars

\* put_snapshot([s1], parent=s3): s1 is reached from the new snapshot both
\* directly and through its parent s3.
PutDiamond ==
    \E io \in IO :
        /\ Ready
        /\ ObjectsReturn("put_snapshot", "s5", put_object(objects, Record("s5"), io))

\* verify_snapshot of that snapshot.
VerifyDiamond ==
    \E order \in Orders :
        /\ Ready
        /\ SnapshotAnswers("s5", verify_snapshot(objects, "s5", order))

NextDiamond ==
    \/ ScanPut
    \/ PutDiamond
    \/ ScanVerifySnapshot
    \/ VerifyDiamond

\* Snapshots that share an ancestor, put and verified on a store nobody tampers
\* with.
SpecDiamond == Init /\ [][NextDiamond]_vars

NextShort ==
    \/ PutWithoutWrite
    \/ PutStart
    \/ Mkstemp
    \/ OsWrite
    \/ OsWriteShort
    \/ OsClose
    \/ OsReplace
    \/ WriteFails
    \/ Crash
    \/ DetectTampering

\* put_object step by step, where os.write may accept fewer bytes than it was
\* given, with detect_tampering between the writes.
SpecShort == Init /\ [][NextShort]_vars

\* Somebody writes to an object file behind the store's back while it is scanned:
\* the last byte changed, a byte that is not UTF-8, or the encoding of another
\* record (a bundle, or a snapshot with references of its own).
ScanTamper ==
    \E d \in DOMAIN objects :
        \E c \in {[Encoding[d] EXCEPT ![Len(Encoding[d])] = "?"],
                  [Encoding[d] EXCEPT ![1] = "0xFF"],
                  Encoding["b2"], Encoding["s4"]} \ {Encoding[d]} :
            /\ Ready
            /\ Cardinality(Tampered(objects) \cup {d}) <= MaxTampered
            /\ objects' = WithFile(objects, d, c)
            /\ ret' = Ret("tamper", "", d, "", "", NoGC)
            /\ pc' = Idle
            /\ UNCHANGED <<waiting, collector, incremental, temps, refs, crashes>>

NextScan ==
    \/ ScanPut
    \/ ScanImportSyncBundles
    \/ ScanExtendSnapshot
    \/ ScanTamper
    \/ ScanCreateSnapshotRef
    \/ ScanDeleteSnapshotRef
    \/ ScanGarbageCollectDryRun
    \/ ScanGarbageCollect
    \/ DetectTampering
    \/ DetectMissingObjects
    \/ VerifyGCSafety
    \/ ScanGetObject
    \/ ScanVerifyObject
    \/ ScanVerifySnapshot

\* The engine on a store of which at most MaxTampered object files are changed
\* from outside.
SpecScan == Init /\ [][NextScan]_vars

NextMark ==
    \/ ScanPut
    \/ ScanTamper
    \/ RefStart
    \/ RefOpen
    \/ RefWrite
    \/ Crash
    \/ ScanDeleteSnapshotRef
    \/ GarbageCollectStart
    \/ MarkStep
    \/ ListAll
    \/ SweepStep

\* A collection run step by step on a store whose files may be changed from
\* outside, so that the records stored may refer to themselves or to each other
\* in a circle.
SpecMark == Init /\ [][NextMark]_vars

\* The same, where a collection that can take its next step takes it in the end.
SpecMarkFair ==
    SpecMark /\ WF_vars(MarkStep) /\ WF_vars(ListAll) /\ WF_vars(SweepStep)

----------------------------------------------------------------------------
(* What the store promises, stated over the files themselves *)

\* The targets of the named references: the digests their files spell.
RefTargets(rfs) ==
    {d \in AllDigests : \E n \in DOMAIN rfs : strip(rfs[n]) = HexText(d)}

\* The digests a record refers to: a snapshot's bundles and parent, a tree's children.
References(obj) ==
    CASE obj.type = "snapshot" ->
            {obj.content.bundles[i] : i \in DOMAIN obj.content.bundles}
            \cup ({obj.content.parent} \ {NoParent})
      [] obj.type = "tree" ->
            {obj.content.children[i] : i \in DOMAIN obj.content.children}
      [] OTHER -> {}

\* The digests the record stored under d refers to; none when the file holds no record.
StoredReferences(objs, d) ==
    IF json_loads(objs[d]).exc = "" THEN References(json_loads(objs[d]).obj) ELSE {}

\* The least set of stored objects that holds S and every stored object one of
\* its members refers to.
RECURSIVE Closure(_, _)
Closure(objs, S) ==
    IF \A x \in S : StoredReferences(objs, x) \cap DOMAIN objs \subseteq S
    THEN S
    ELSE Closure(objs, S \cup {d \in DOMAIN objs :
                                  \E x \in S : d \in StoredReferences(objs, x)})

\* The stored objects reachable from the target of some named reference.
Reachable(objs, rfs) == Closure(objs, RefTargets(rfs) \cap DOMAIN objs)

\* The value a reference file (an optional content) reads as.
RefValue(file) == IF file = <<>> THEN "None" ELSE TextValue(strip(file[1]))

\* C1 (GC soundness): a garbage_collect(dry_run=False) leaves in place, with its
\* bytes, every object that was stored before the call and was reachable from the
\* target of a named reference through snapshot bundles, snapshot parents and
\* tree children.
C1_GCSoundness ==
    [][ret'.op = "gc" =>
         \A d \in Reachable(objects, refs) :
             d \in DOMAIN objects' /\ objects'[d] = objects[d]]_vars

\* A collection has deleted something while the chain main/dev -> s3 -> s1 -> b1,
\* with s3 -> b2, is still stored.
C1_Witness ==
    /\ ret.op = "gc"
    /\ ret.gc.deleted # {}
    /\ "s3" \in RefTargets(refs)
    /\ {"s3", "s1", "b1", "b2"} \subseteq DOMAIN objects

C3_ContentAddressing ==
    \A d \in DOMAIN objects :
        /\ json_loads(objects[d]).exc = ""
        /\ compute_hash(canonical_json(json_loads(objects[d]).obj)) = d

\* Records of every kind are stored, a snapshot with a parent among them, after
\* an import.
C3_Witness ==
    /\ ret.op = "import_sync_bundles"
    /\ ret.exc = ""
    /\ {"b1", "b2", "s1", "s3", "l1", "t1"} \subseteq DOMAIN objects

\* C4 (immutability): no operation changes the bytes stored under a digest; an
\* object that is stored before and after a step has the same content.
C4_Immutability ==
    [][\A d \in DOMAIN objects \cap DOMAIN objects' : objects'[d] = objects[d]]_vars

\* A record was put again while stored, and the put returned.
C4_Witness ==
    /\ ret.op = "put_tree"
    /\ ret.after = "same_put"
    /\ ret.exc = ""
    /\ "t1" \in DOMAIN objects

\* C5 (idempotent put): a put of the record the call before it put and returned
\* from returns the same digest, writes nothing (it succeeds even when every write
\* would fail, and the files are untouched), and one file holds the record.
C5_IdempotentPut ==
    [][(ret'.op \in PutOps /\ ret'.after = "same_put") =>
           /\ ret'.exc = ""
           /\ ret'.digest = ret.digest
           /\ objects' = objects
           /\ temps' = temps
           /\ Cardinality({p \in DOMAIN objects' :
                  objects'[p] = canonical_json(Record(ret'.arg))}) = 1]_vars

\* The snapshot s3 was put twice in a row.
C5_Witness ==
    /\ ret.op = "put_snapshot"
    /\ ret.after = "same_put"
    /\ ret.digest = "s3"
    /\ "s3" \in DOMAIN objects

C8_DryRunReadOnly ==
    [][ret'.op = "gc_dry_run" =>
           /\ objects' = objects
           /\ refs' = refs
           /\ temps' = temps
           /\ ret'.gc.deleted = {}
           /\ ret'.gc.unreachable = DOMAIN objects \ ret'.gc.reachable
           /\ ret'.gc.reachable = Reachable(objects, refs)]_vars

\* A dry run reported unreachable objects, and they are still stored.
C8_Witness ==
    /\ ret.op = "gc_dry_run"
    /\ ret.gc.unreachable # {}
    /\ ret.gc.reachable # {}
    /\ ret.gc.unreachable \subseteq DOMAIN objects

\* C9 (named-ref updates are atomic) as stated: after a create_snapshot_ref(n, d)
\* that returned, failed or was cut off by the death of the process,
\* get_snapshot_ref(n) is the value from before the call or d.
C9_RefUpdateAtomic ==
    /\ (pc.kind = "ref" /\ pc.at \in {"failed", "crashed"})
           => get_snapshot_ref(refs, pc.name) \in {RefValue(pc.old), pc.path}
    /\ (ret.op = "create_snapshot_ref" /\ ret.exc = "" /\ pc.at = "idle")
           => get_snapshot_ref(refs, ret.name) = ret.arg

\* C10 (create_snapshot_ref needs its target): create_snapshot_ref(n, d) with no
\* object stored under d raises ObjectNotFoundError and changes neither the
\* references nor the objects.
C10_RefNeedsTarget ==
    [][(ret'.op = "create_snapshot_ref" /\ ~has_object(objects, ret'.arg)) =>
           /\ ret'.exc = "ObjectNotFoundError"
           /\ refs' = refs
           /\ objects' = objects]_vars

\* A reference to an absent object was refused while other objects and
\* references exist.
C10_Witness ==
    /\ ret.op = "create_snapshot_ref"
    /\ ret.exc = "ObjectNotFoundError"
    /\ ret.arg \notin DOMAIN objects
    /\ DOMAIN objects # {}
    /\ DOMAIN refs # {}

----------------------------------------------------------------------------
(* What the store promises about files that are damaged or missing *)

\* The record the file stored under d holds, when it parses.
StoredRecord(objs, d) == json_loads(objs[d]).obj

\* d is stored and its file holds a well-formed record whose canonical encoding
\* hashes to d.
Intact(objs, d) ==
    /\ d \in DOMAIN objs
    /\ json_loads(objs[d]).exc = ""
    /\ StoredRecord(objs, d).type \in {"blob", "bundle", "snapshot", "tree"}
    /\ compute_hash(canonical_json(StoredRecord(objs, d))) = d

IntactSnapshot(objs, d) == Intact(objs, d) /\ StoredRecord(objs, d).type = "snapshot"

\* The snapshots reached from those of S through the references of intact snapshots.
RECURSIVE SnapshotClosure(_, _)
SnapshotClosure(objs, S) ==
    IF \A x \in S : IntactSnapshot(objs, x) =>
           \A r \in References(StoredRecord(objs, x)) : IntactSnapshot(objs, r) => r \in S
    THEN S
    ELSE SnapshotClosure(
             objs,
             S \cup {r \in DOMAIN objs :
                        /\ IntactSnapshot(objs, r)
                        /\ \E x \in S : /\ IntactSnapshot(objs, x)
                                        /\ r \in References(StoredRecord(objs, x))})

\* The parent the file stored under d names, NoParent when it names none.
ParentOf(objs, d) ==
    IF d \in DOMAIN objs /\ json_loads(objs[d]).exc = ""
       /\ StoredRecord(objs, d).type = "snapshot"
    THEN StoredRecord(objs, d).content.parent
    ELSE NoParent

\* Following the parents the files name from current comes back to a digest
\* already passed.
RECURSIVE ParentWalkRevisits(_, _, _)
ParentWalkRevisits(objs, current, seen) ==
    IF current = NoParent THEN FALSE
    ELSE IF current \in seen THEN TRUE
    ELSE ParentWalkRevisits(objs, ParentOf(objs, current), seen \cup {current})

\* The chain of parents from current is acyclic and made of intact snapshots.
RECURSIVE ChainIntact(_, _, _)
ChainIntact(objs, current, seen) ==
    IF current = NoParent THEN TRUE
    ELSE IF current \in seen THEN FALSE
    ELSE /\ IntactSnapshot(objs, current)
         /\ ChainIntact(objs, ParentOf(objs, current), seen \cup {current})

C12_ReadVerify ==
    (ret.op = "get_object" /\ ret.exc = "") =>
        /\ json_loads(ret.value).exc = ""
        /\ json_loads(ret.value).obj.type \in {"blob", "bundle", "snapshot", "tree"}
        /\ compute_hash(ret.value) = ret.arg

\* get_object returned the record of a file that was changed from outside, while
\* the file still differs from what put wrote.
C12_Witness ==
    /\ ret.op = "get_object"
    /\ ret.exc = ""
    /\ ret.arg \in Tampered(objects)
    /\ ret.value = Encoding[ret.arg]

\* C13 (tamper detection) as stated: verify_object(d) raises whenever the file
\* stored under d differs from what put wrote.
C13_TamperDetected ==
    (ret.op = "verify_object" /\ ret.arg \in Tampered(objects)) => ret.exc # ""

\* C14 (error kinds of get) as stated: get_object(d) raises ObjectNotFoundError
\* when no file is stored under d, and ObjectCorruptedError when the file does
\* not parse as a record or holds a record whose digest is not d.
C14_GetErrorKinds ==
    ret.op = "get_object" =>
        /\ ret.arg \notin DOMAIN objects => ret.exc = "ObjectNotFoundError"
        /\ (ret.arg \in DOMAIN objects /\ ~Intact(objects, ret.arg))
               => ret.exc = "ObjectCorruptedError"

\* C15 (self-healing put) as stated: a put of the record with digest d over a
\* file that is corrupt in any way does not raise (unless the write itself
\* fails), leaves the canonical encoding under d, and get_object(d) then returns
\* the record.
C15_SelfHealingPut ==
    [][(/\ ret'.op \in PutOps
        /\ ret'.arg \in DOMAIN objects
        /\ ~Intact(objects, ret'.arg)
        /\ ret'.exc # "StorageError") =>
           /\ ret'.exc = ""
           /\ FileAt(objects', ret'.arg) = <<canonical_json(Record(ret'.arg))>>
           /\ get_object(objects', ret'.arg, TRUE).exc = ""]_vars

\* C16 (reference totality): verify_snapshot(s) answers valid only when s and
\* every snapshot reached from it are intact snapshots whose bundles and parent
\* are stored and intact; and when the file of s names a digest that is not
\* stored, the answer is invalid with a non-empty errors list.
C16_ReferenceTotality ==
    LET
        \* s and every snapshot reached from it are intact snapshots whose references
        \* are all stored and intact.
        TotallyValid(objs, s) ==
            \A x \in SnapshotClosure(objs, {s}) :
                /\ IntactSnapshot(objs, x)
                /\ \A r \in References(StoredRecord(objs, x)) : Intact(objs, r)
    IN
    ret.op = "verify_snapshot" =>
        /\ ret.valid => TotallyValid(objects, ret.arg)
        /\ (/\ ret.arg \in DOMAIN objects
            /\ json_loads(objects[ret.arg]).exc = ""
            /\ \E r \in References(StoredRecord(objects, ret.arg)) : r \notin DOMAIN objects)
               => (~ret.valid /\ ret.value # <<>>)

\* verify_snapshot answered valid for s4, whose chain s4 -> s3 -> s1 and bundles
\* are all stored.
C16_Witness ==
    /\ ret.op = "verify_snapshot"
    /\ ret.valid
    /\ ret.arg = "s4"
    /\ {"s4", "s3", "s1", "b1", "b2"} \subseteq DOMAIN objects

\* C17 (sibling verification continues) as stated: when two or more direct
\* references of an intact snapshot s are missing or corrupt, the errors list of
\* verify_snapshot(s) has an entry for each of them.
C17_SiblingsReported ==
    (/\ ret.op = "verify_snapshot"
     /\ IntactSnapshot(objects, ret.arg)
     /\ Cardinality({r \in References(StoredRecord(objects, ret.arg)) :
                        ~Intact(objects, r)}) >= 2) =>
        \A r \in References(StoredRecord(objects, ret.arg)) :
            ~Intact(objects, r) => \E i \in DOMAIN ret.value : ret.value[i][2] = r

\* C18 (create_snapshot_from_bundles needs its parent) as stated: an
\* import_sync_bundles whose parent is not stored raises InvalidObjectError (unless
\* a write fails first), stores no snapshot and creates no named ref.
C18_SnapshotNeedsParent ==
    [][(/\ ret'.op = "import_sync_bundles"
        /\ Record(ret'.arg).content.parent # NoParent
        /\ Record(ret'.arg).content.parent \notin DOMAIN objects
        /\ ret'.exc # "StorageError") =>
           /\ ret'.exc = "InvalidObjectError"
           /\ ret'.arg \in DOMAIN objects' => ret'.arg \in DOMAIN objects
           /\ refs' = refs]_vars

\* C19 (cycle safety of chain walking) as stated: when following the parents from
\* d comes back to a digest already passed, get_snapshot_chain(d) raises
\* InvalidReferenceError.
C19_CycleRaisesInvalidReference ==
    (ret.op = "get_snapshot_chain" /\ ParentWalkRevisits(objects, ret.arg, {}))
        => ret.exc = "InvalidReferenceError"

\* C20 (root-first chain): on an acyclic chain of intact, stored snapshots
\* get_snapshot_chain(d) returns the chain root first: its first element has no
\* parent, the parent of each later element is the element before it, and its
\* last element is d.
C20_ChainRootFirst ==
    (ret.op = "get_snapshot_chain" /\ ChainIntact(objects, ret.arg, {})) =>
        /\ ret.exc = ""
        /\ Len(ret.value) >= 1
        /\ ParentOf(objects, ret.value[1]) = NoParent
        /\ \A i \in 2..Len(ret.value) : ParentOf(objects, ret.value[i]) = ret.value[i - 1]
        /\ ret.value[Len(ret.value)] = ret.arg

\* The chain of s4 was returned: s1, s3, s4.
C20_Witness ==
    /\ ret.op = "get_snapshot_chain"
    /\ ret.exc = ""
    /\ ret.value = <<"s1", "s3", "s4">>

----------------------------------------------------------------------------
(* What garbage collection, the whole-store scans and the writes promise *)

\* C21 (objects are destroyed only by the sweep): no engine operation other than
\* garbage_collect(dry_run=False) removes a stored object: across every put,
\* import, extend, read, verification, scan, reference operation and dry run the
\* set of stored objects does not lose a member; and what a
\* garbage_collect(dry_run=False) removes is what its sweep reports as deleted.
C21_OnlySweepDestroys ==
    [][/\ ret'.op # "gc" => DOMAIN objects \subseteq DOMAIN objects'
       /\ ret'.op = "gc" => DOMAIN objects \ DOMAIN objects' = ret'.gc.deleted]_vars

\* detect_tampering ran on a store with no named reference, where every object
\* is unreachable and one file is changed: all the objects are still stored.
C21_Witness ==
    /\ ret.op = "detect_tampering"
    /\ ~ret.valid
    /\ DOMAIN refs = {}
    /\ Tampered(objects) # {}
    /\ Cardinality(DOMAIN objects) >= 3

\* The stored objects whose file cannot be loaded: it does not parse as a record.
Unloadable(objs) == {d \in DOMAIN objs : json_loads(objs[d]).exc # ""}

\* C22 (conservative marking): garbage_collect puts every stored object reachable
\* from a named reference in its reachable set and leaves it in place, the objects
\* whose file cannot be loaded or parsed included; a failed load does not end the
\* mark phase (the objects reached through other references are still marked and
\* no error is reported for it).
C22_ConservativeMarking ==
    [][ret'.op \in {"gc", "gc_dry_run"} =>
           /\ ret'.exc = ""
           /\ Unloadable(objects) # {} => ret'.gc.errors = {}
           /\ \A d \in Reachable(objects, refs) :
                  /\ d \in ret'.gc.reachable
                  /\ FileAt(objects', d) = FileAt(objects, d)]_vars

\* A collection ran while the snapshot s3 is a root and its parent s1 is an
\* unparseable file: s1 and the bundles of s3 are in the reachable set and still
\* stored, and nothing was deleted.
C22_Witness ==
    /\ ret.op = "gc"
    /\ ret.gc.deleted = {}
    /\ "s3" \in RefTargets(refs)
    /\ "s1" \in Unloadable(objects)
    /\ {"s3", "s1", "b1", "b2"} \subseteq ret.gc.reachable
    /\ {"s3", "s1", "b1", "b2"} \subseteq DOMAIN objects

\* C23 (the sweep continues on error): a garbage_collect(dry_run=False) in which
\* the delete of an unreachable object fails does not raise; every object that
\* was stored and unreachable before the call is either deleted and reported as
\* deleted, or still stored with an error recorded for it; and every reachable
\* object is still stored with its bytes.
C23_SweepContinues ==
    [][ret'.op = "gc" =>
           /\ ret'.exc = ""
           /\ \A d \in DOMAIN objects \ Reachable(objects, refs) :
                  \/ /\ d \notin DOMAIN objects'
                     /\ d \in ret'.gc.deleted
                     /\ <<"Failed to delete", d>> \notin ret'.gc.errors
                  \/ /\ d \in DOMAIN objects'
                     /\ d \notin ret'.gc.deleted
                     /\ <<"Failed to delete", d>> \in ret'.gc.errors
           /\ \A e \in ret'.gc.errors :
                  e[1] = "Failed to delete" /\ e[2] \notin Reachable(objects, refs)
           /\ \A d \in Reachable(objects, refs) :
                  FileAt(objects', d) = FileAt(objects, d)]_vars

\* A collection in which one delete failed: an error is recorded, two other
\* unreachable objects are deleted, and the objects reachable from a named
\* reference are still stored.
C23_Witness ==
    /\ ret.op = "gc"
    /\ Cardinality(ret.gc.errors) = 1
    /\ Cardinality(ret.gc.deleted) >= 2
    /\ RefTargets(refs) \cap DOMAIN objects # {}
    /\ \A e \in ret.gc.errors : e[2] \in DOMAIN objects

\* C24 (collect is all or nothing) as stated: after a garbage_collect(dry_run=False)
\* returned, either every object of its unreachable set has been deleted or none
\* has.
C24_CollectAllOrNothing ==
    ret.op = "gc" =>
        \/ ret.gc.unreachable \cap DOMAIN objects = {}
        \/ ret.gc.deleted = {}

\* C25 (named refs are the sole GC roots): the reachable set of a garbage_collect
\* is exactly the set of stored objects reachable from the target of a named
\* reference that exists at the call, and its unreachable set is the rest of the
\* stored objects; and when the call before it was a delete_snapshot_ref that
\* deleted a reference, the object that reference named and everything reachable
\* from it that no remaining reference leads to are reported unreachable.
C25_RefsAreSoleRoots ==
    [][ret'.op \in {"gc", "gc_dry_run"} =>
           /\ ret'.gc.reachable = Reachable(objects, refs)
           /\ ret'.gc.unreachable = DOMAIN objects \ Reachable(objects, refs)
           /\ (ret.op = "delete_snapshot_ref" /\ ret.valid
               /\ ret.value[1] \in DOMAIN objects
               /\ ret.value[1] \notin RefTargets(refs)) =>
                  Closure(objects, {ret.value[1]}) \ Reachable(objects, refs)
                      \subseteq ret'.gc.unreachable]_vars

\* The reference to s3 was deleted and the collection that followed reported s3,
\* its parent s1 and its bundles unreachable, and deleted them.
C25_Witness ==
    /\ ret.op = "gc"
    /\ ret.value = <<"s3">>
    /\ {"s3", "s1", "b1", "b2"} \subseteq ret.gc.unreachable
    /\ {"s3", "s1", "b1", "b2"} \subseteq ret.gc.deleted
    /\ DOMAIN objects = {}

\* The parent and the payloads an extend_snapshot is called with for the table's
\* snapshot s, and the digests of the payloads.
ExtendParent(s) == Record(s).content.parent

\* C26 (extend_snapshot needs its parent): extend_snapshot(parent, new_payloads,
\* name) with no object stored under parent raises InvalidObjectError and changes
\* neither the objects nor the named references; with parent stored, the snapshot
\* it returns is stored, its parent field is parent and its bundles are the
\* digests of new_payloads in order.
C26_ExtendNeedsParent ==
    [][LET
           PayloadDigests(s) ==
               [i \in DOMAIN Payloads(s) |->
                   compute_hash(canonical_json(BundleDict(Payloads(s)[i], NoMetadata)))]
       IN
       ret'.op = "extend_snapshot" =>
           /\ ~has_object(objects, ExtendParent(ret'.arg)) =>
                  /\ ret'.exc = "InvalidObjectError"
                  /\ objects' = objects
                  /\ refs' = refs
           /\ (has_object(objects, ExtendParent(ret'.arg)) /\ ret'.exc = "") =>
                  /\ ret'.digest \in DOMAIN objects'
                  /\ StoredRecord(objects', ret'.digest).type = "snapshot"
                  /\ StoredRecord(objects', ret'.digest).content.parent
                         = ExtendParent(ret'.arg)
                  /\ StoredRecord(objects', ret'.digest).content.bundles
                         = PayloadDigests(ret'.arg)]_vars

\* An extend_snapshot of an absent parent was refused while the bundles of its
\* payloads are stored and a named reference exists.
C26_Witness ==
    /\ ret.op = "extend_snapshot"
    /\ ret.exc = "InvalidObjectError"
    /\ ExtendParent(ret.arg) \notin DOMAIN objects
    /\ {"b1", "b2"} \subseteq DOMAIN objects
    /\ DOMAIN refs # {}

\* C27 (temp-file cleanup) as stated: whenever the atomic write fails at a step
\* (creating the temporary file, writing, closing, renaming) the put raises
\* StorageError and the temporary file of the write is not left behind; and after
\* a write that succeeded its temporary file is gone.
C27_TempFileCleanup ==
    [][/\ (pc.kind = "object" /\ pc.at \in {"mkstemp", "write", "close", "replace"}
           /\ pc'.at = "failed") =>
              /\ ret'.exc = "StorageError"
              /\ pc.tmp \notin DOMAIN temps'
       /\ (pc.kind = "object" /\ pc.at = "replace" /\ pc'.at = "idle") =>
              pc.tmp \notin DOMAIN temps']_vars

\* C28 (enumeration matches existence) as stated: whenever no operation is under
\* way, also after a put that failed or was cut off by the death of the process
\* between creating its temporary file and the rename, list_all_objects() returns
\* exactly the digests d for which has_object(d) is true.
C28_EnumerationMatchesExistence ==
    Ready =>
        /\ \A x \in list_all_objects(objects, temps) : has_object(objects, x)
        /\ \A d \in AllDigests : has_object(objects, d) =>
                                    d \in list_all_objects(objects, temps)

\* C29 (broken_snapshots are the snapshots with a missing reference) as stated:
\* detect_missing_objects lists in broken_snapshots every stored snapshot that
\* refers to a digest that is not stored, and lists no stored snapshot below
\* which every referenced digest is stored, even when one of the referenced
\* objects is corrupt.
C29_BrokenMeansMissing ==
    LET
        \* The stored objects whose file holds a record of type snapshot.
        StoredSnapshots(objs) ==
            {d \in DOMAIN objs : json_loads(objs[d]).exc = ""
                                 /\ StoredRecord(objs, d).type = "snapshot"}
        \* Every digest that d, or a stored object reached from d, refers to is stored.
        AllPresentBelow(objs, d) ==
            \A x \in Closure(objs, {d}) : StoredReferences(objs, x) \subseteq DOMAIN objs
    IN
    ret.op = "detect_missing_objects" =>
        \A s \in StoredSnapshots(objects) :
            /\ ~(StoredReferences(objects, s) \subseteq DOMAIN objects)
                   => s \in ret.value[1]
            /\ AllPresentBelow(objects, s) => s \notin ret.value[1]

\* C30 (missing_objects are absent) as stated: every digest detect_missing_objects
\* returns in missing_objects is absent from the store.
C30_MissingAreAbsent ==
    ret.op = "detect_missing_objects" =>
        \A d \in ret.value[2] : ~has_object(objects, d)

\* C34 (no dangling roots) as stated: every name list_snapshot_refs returns maps
\* through get_snapshot_ref to a digest that is present in the store.
C34_NoDanglingRoots ==
    \A n \in list_snapshot_refs(refs) :
        has_object(objects, get_snapshot_ref(refs, n))

\* C37 (GC result partition): in every result of garbage_collect, in either mode,
\* reachable and unreachable are disjoint, every element of reachable was stored
\* when the call began, deleted is a subset of unreachable, and errors holds no
\* 'Safety violation' entry.
C37_GCResultPartition ==
    [][ret'.op \in {"gc", "gc_dry_run"} =>
           /\ ret'.gc.reachable \cap ret'.gc.unreachable = {}
           /\ ret'.gc.reachable \subseteq DOMAIN objects
           /\ ret'.gc.deleted \subseteq ret'.gc.unreachable
           /\ \A e \in ret'.gc.errors : e[1] # "Safety violation"]_vars

\* A collection that deleted an object and kept a reachable one that refers to a
\* digest which is not stored.
C37_Witness ==
    /\ ret.op = "gc"
    /\ ret.gc.deleted # {}
    /\ \E d \in ret.gc.reachable :
           /\ d \in DOMAIN objects
           /\ ~(StoredReferences(objects, d) \subseteq DOMAIN objects)

\* C40 (only a complete payload is renamed) as stated: whenever
\* _write_object_atomic does the rename, the temporary file holds the whole
\* canonical encoding, and the target then holds it too.
C40_RenameOnlyComplete ==
    [][pc.at = "replace" /\ pc'.at = "idle" =>
           /\ temps[pc.tmp] = pc.data
           /\ objects'[pc.path] = pc.data]_vars

\* C31 (detect_tampering partitions the store) as stated: detect_tampering
\* returns; verified plus the number of tampered entries is the number of stored
\* objects; tampered holds exactly the stored digests for which verify_object
\* fails, so no intact object is in it.
C31_TamperingPartition ==
    ret.op = "detect_tampering" =>
        /\ ret.exc = ""
        /\ ret.value[2] + Cardinality(ret.value[1]) = Cardinality(DOMAIN objects)
        /\ ret.value[1] = {d \in DOMAIN objects : verify_object(objects, d).exc # ""}

\* C36 (two interleaved puts): when two callers put records step by step on one
\* store, a put that returns returns the digest of its record and the file at
\* that digest then holds the complete canonical encoding; at no moment does a
\* file at a digest hold anything else; and when neither caller is in the
\* middle of a write no temporary file is left.
C36_InterleavedPuts ==
    [][/\ (ret' # ret /\ ret'.op \in PutOps /\ ret'.exc = "") =>
              /\ ret'.digest = ret'.arg
              /\ has_object(objects', ret'.digest)
              /\ objects'[ret'.digest] = Encoding[ret'.digest]
       /\ \A d \in DOMAIN objects' : objects'[d] = Encoding[d]
       /\ (pc'.at = "idle" /\ waiting'.at = "idle") => temps' = NoFiles]_vars

\* One caller is about to rename its temporary file over a digest that was
\* absent when it checked and that the other caller has stored and returned in
\* the meantime.
C36_Witness ==
    /\ pc.at = "replace"
    /\ pc.old = <<>>
    /\ has_object(objects, pc.path)
    /\ waiting.at = "idle"
    /\ ret.op \in PutOps
    /\ ret.digest = pc.path

\* C32 (a cycle is reported only for a cycle) as stated: on a store whose files
\* all hold their own records (so that the reference graph has no cycle),
\* verify_snapshot(s) of a stored snapshot s below which every referenced digest
\* is stored answers valid with no errors, also when a snapshot is reached from
\* s along two paths.
C32_NoFalseCycle ==
    (/\ ret.op = "verify_snapshot"
     /\ \A d \in DOMAIN objects : objects[d] = Encoding[d]
     /\ has_object(objects, ret.arg)
     /\ Record(ret.arg).type = "snapshot"
     /\ \A x \in Closure(objects, {ret.arg}) :
            StoredReferences(objects, x) \subseteq DOMAIN objects)
        => (ret.valid /\ ret.value = <<>>)

\* C33 (IncrementalGC is sound across batches) as stated: sweep_batch deletes no
\* object that is, when the sweep runs, reachable from the target of a named
\* reference, also when objects were put and references created after
\* mark_batch without invalidate_cache.
C33_SweepBatchSound ==
    [][ret'.op = "sweep_batch" =>
           \A d \in Reachable(objects, refs) : FileAt(objects', d) = FileAt(objects, d)]_vars

\* C39 (references and objects are independent): create_snapshot_ref and
\* delete_snapshot_ref leave every object file as it was; the puts and
\* garbage_collect, in either mode, leave every reference file as it was; and a
\* create_snapshot_ref of name n that returns leaves the file of every other
\* name as it was and makes n read as the digest given.
C39_RefsAndObjectsIndependent ==
    [][/\ ret'.op \in {"create_snapshot_ref", "delete_snapshot_ref"} =>
              /\ objects' = objects
              /\ temps' = temps
              /\ \A m \in DOMAIN refs \cup DOMAIN refs' :
                     m # ret'.name => FileAt(refs', m) = FileAt(refs, m)
       /\ (ret'.op = "create_snapshot_ref" /\ ret'.exc = "") =>
              get_snapshot_ref(refs', ret'.name) = ret'.arg
       /\ ret'.op \in PutOps \cup {"gc", "gc_dry_run"} => refs' = refs]_vars

\* A create_snapshot_ref returned that overwrote the reference main, which
\* pointed at another digest, while the reference dev points at a digest.
C39_Witness ==
    /\ ret.op = "create_snapshot_ref"
    /\ ret.exc = ""
    /\ ret.name = "main"
    /\ ret.value # <<>>
    /\ ret.value[1] \in DOMAIN objects \ {ret.arg}
    /\ get_snapshot_ref(refs, "dev") \in DOMAIN objects

\* C35 (the collector does not race with a writer) as stated: when a
\* garbage_collect(dry_run=False) and import_and_snapshot calls were interleaved
\* write by write and none of them is under way any more, the snapshot every
\* name points at is stored, and so is every bundle it lists.
C35_GCDoesNotRaceWithImport ==
    (pc.at = "idle" /\ collector.at = "idle") =>
        \A n \in list_snapshot_refs(refs) :
            /\ has_object(objects, get_snapshot_ref(refs, n))
            /\ \A b \in Range(Record(get_snapshot_ref(refs, n)).content.bundles) :
                   has_object(objects, b)

\* C38 (the mark phase terminates): a collection run step by step loads no
\* digest twice, and once begun it returns its result in the end, whatever the
\* stored records refer to (themselves, each other in a circle, digests that
\* are not stored) and whether its roots are stored or not.
C38_MarkTerminates ==
    /\ [](\A i, j \in DOMAIN collector.loaded :
              collector.loaded[i] = collector.loaded[j] => i = j)
    /\ (collector.at = "mark") ~> (collector.at = "idle" /\ ret.op = "gc")

\* A collection is marking a store in which a snapshot's file refers to itself or
\* lies on a circle of references, and has loaded it and emptied its queue.
C38_Witness ==
    /\ collector.at = "mark"
    /\ collector.queue = <<>>
    /\ \E d \in Range(collector.loaded) :
           /\ has_object(objects, d)
           /\ \E x \in StoredReferences(objects, d) :
                  /\ has_object(objects, x)
                  /\ d \in Closure(objects, {x})

====
